---- MODULE Spec2Model ----
(***************************************************************************)
(* Model of the bitfinex_borrow_catcher realtime plane and control loop.   *)
(*                                                                         *)
(*   SpecSeq   the sequence reorder buffer (seqNoHandler)                  *)
(*   SpecBook  the order-book maintainer                                   *)
(*   SpecWS    the websocket driver (SpecWSFair: with fair scheduling)     *)
(*   SpecEng   the engine's period loop and order-book checks              *)
(*   SpecDec   the decision of the borrow task (prepareBorrowTask)         *)
(*   SpecExec  the borrow task from the market sets to the closed loans    *)
(*   SpecLoop  mainRoutine and the instants of its periods                 *)
(*   SpecRead  the read loop, the reconnection and the stop signal         *)
(*   SpecCycle   the actions of a cycle and their recovery from a panic    *)
(*   SpecClose   closeFundings and its pauses                              *)
(*   SpecFetch   the updater and the realtime handlers of the data fetcher *)
(*   SpecDeliver the delivery of replies and errors to handleCommand       *)
(*   SpecFold    the maintainer with diffs held before the first snapshot  *)
(*                                                                         *)
(* Every specification constrains all variables; the variables of the      *)
(* other subsystems stay at their initial values.                          *)
(***************************************************************************)
EXTENDS Integers, Sequences, FiniteSets, TLC

VARIABLES
    nh,          \* seqNoHandler: haveSeqNo, startSeqNo, seqNosNum, seqNos
    processed,   \* seqNos on which process() ran since the last clear, in call order
    firstPush,   \* the seqNo of the first push since the last clear (-1: none yet)
    pushedSet,   \* the seqNos pushed after the first one since the last clear
    lastPush,    \* the seqNo pushed last (-1: none yet)
    pushCount,   \* number of pushes since the last clear
    dupPush,     \* some seqNo was pushed twice since the last clear
    farPush,     \* some push was seqNoElemsNum or more ahead of the next expected seqNo
    lastRet      \* outcome of the last push: "none", "ok", "gap" or "panic"

seqVars == <<nh, processed, firstPush, pushedSet, lastPush, pushCount, dupPush, farPush, lastRet>>

VARIABLES
    heap,          \* backing arrays of all order-book slices
    toHandlePool,  \* the buffers made by newOrderBooks (each: seqNoElemsNum books of slices)
    initial,       \* rtob.initial (slices)
    initialSeqNo,  \* rtob.initialSeqNo
    haveInitial,   \* rtob.haveInitial
    pendings,      \* rtob.pendings
    running,       \* handler goroutines still running: the book they point to, its value when handed over
    lastOut,       \* values of the books produced by the last fold
    dfOrderBook,   \* df.orderBook, the book the handler stored last: the call that
                   \* published it and its place in the batch
    bookOps,       \* number of maintainer calls made
    bookPanic      \* a maintainer call panicked

bookVars == <<heap, toHandlePool, initial, initialSeqNo, haveInitial, pendings,
              running, lastOut, dfOrderBook, bookOps, bookPanic>>

VARIABLES
    conn,            \* drv.conn: "up", "broken" (transport failed), "dialing" (tryReconnect), "nil"
    wire,            \* messages sent by the server and not yet read
    cmds,            \* commands written to the connection and not yet answered
    srv,             \* channel ids the server feeds on this connection
    funcRetCh,       \* drv.funcRetCh (capacity 2)
    funcErrCh,       \* drv.funcErrCh (capacity 2)
    chans,           \* "open", or "closed" once stop() closed both channels
    awaitingFuncRet, \* drv.awaitingFuncRet
    channelsOpened,  \* drv.channelsOpened
    handlersReg,     \* channel types with a handler in the handler maps
    chanIdMap,       \* ws...ChanIdMap: channel type -> channel id (-1: none)
    wsChannelMap,    \* drv.wsChannelMap: channel id -> bitfinexChannelEntry
    dpc,             \* where handleMessages is: "select", "append", "sending" (blocked in a
                     \* send on funcRetCh or funcErrCh), "reconnecting", "stopped"
    dmsg,            \* the message wsHandleMessage is about to append to firstMsgs
    call,            \* the call holding callMutex
    resubWaiting,    \* the goroutine of reconnect() waits for callMutex
    rebookWaiting,   \* a goroutine running resubscribeOrderBook waits for callMutex
    replay,          \* first messages still to be replayed by wsAddChannel's goroutine
    stopping,        \* stop() has begun
    crashed,         \* a goroutine panicked with no recover
    wsGhost          \* history: counters, messages received and handled, last outcome

wsVars == <<conn, wire, cmds, srv, funcRetCh, funcErrCh, chans, awaitingFuncRet, channelsOpened,
            handlersReg, chanIdMap, wsChannelMap, dpc, dmsg, call, resubWaiting, rebookWaiting,
            replay, stopping, crashed, wsGhost>>

\* the engine: the auto-loan period loop, the order-book checkers and the
\* history of the started borrow tasks
VARIABLES epc, btDone, checkOBEnabled, taskTimer, lastOb, checkers, engGhost

engVars == <<epc, btDone, checkOBEnabled, taskTimer, lastOb, checkers, engGhost>>

\* the borrow task: the configuration, the market sets, the credits kept from the
\* start of the window, the inputs and the result of the decision, and the
\* execution of the task against the exchange
VARIABLES
    config,            \* MinRateDifference (in percent) and MinOrderAmount
    baseCurrMarkets,   \* keys of Engine.baseCurrMarkets
    quoteCurrMarkets,  \* keys of Engine.quoteCurrMarkets
    alCreditsMap,      \* the credits kept at the start of the window
    tin,               \* what the decision was computed from
    bt,                \* the BorrowTask and the state of the book walk that produced it
    tpc,               \* position of the task's goroutine
    slept,             \* seconds slept by doBorrowTask
    xlog               \* the requests sent to the exchange, in order

taskVars == <<config, baseCurrMarkets, quoteCurrMarkets, alCreditsMap, tin, bt, tpc, slept, xlog>>

\* mainRoutine: the clock, the instants the loop holds and the periods it handled
VARIABLES
    clock,          \* time.Now()
    loopNow,        \* the local now of mainRoutine
    alPeriodTime,   \* the local alPeriodTime of mainRoutine
    lpc,            \* position of mainRoutine
    ran             \* the periods handled: their T_start and the now they were chosen at

loopVars == <<clock, loopNow, alPeriodTime, lpc, ran>>

\* handleMessages and tryReconnect step by step: the reads, the two channels of
\* the dispatcher, the stop signal
VARIABLES
    rdConn,     \* drv.conn: the number of the connection, 0 after start
    rdAlive,    \* the transport of drv.conn works
    rdWire,     \* messages the server sent on drv.conn, not yet read
    rdReads,    \* for every connection the reads (conn.ReadMessage) that are outstanding
    msgCh,      \* msgCh of handleMessages (capacity 2)
    errCh,      \* drv.errCh (capacity 2)
    rpc,        \* where handleMessages is
    dialGood,   \* good of tryReconnect
    rdOpened,   \* drv.channelsOpened
    stopCh,     \* drv.stopCh: "idle", "sending" (stop() waits for a receiver), "taken", "closed"
    rdGhost     \* history: counters, what was going on when the stop signal was taken

readVars == <<rdConn, rdAlive, rdWire, rdReads, msgCh, errCh, rpc, dialGood, rdOpened, stopCh,
              rdGhost>>

\* the actions of a cycle and the panics they raise
VARIABLES
    cpc,         \* where handleAutoLoanPeriod is: "sleep", "close", "summary", "select"
    taskMutex,   \* eng.taskMutex: 0 when free, else the task goroutine that holds it
    tasks,       \* the goroutines of makeBorrowTaskSafe: "none", "lock", "run", "done"
    procDown,    \* a panic reached the top of a goroutine: the process is gone
    cyGhost      \* history: periods, the actions that panicked, the panics logged

cycleVars == <<cpc, taskMutex, tasks, procDown, cyGhost>>

\* the data fetcher: its clock, the time of the last realtime update and what
\* update() fetched
VARIABLES
    dfNow,          \* time.Now().Unix()
    rtLastUpdate,   \* df.rtLastUpdate
    dfFetched,      \* the axes the last update() fetched via REST, stored and handed on
    dfGhost         \* history: the last realtime update of every axis, counters

fetchVars == <<dfNow, rtLastUpdate, dfFetched, dfGhost>>

vars == <<seqVars, bookVars, wsVars, engVars, taskVars, loopVars, readVars, cycleVars, fetchVars>>

----------------------------------------------------------------------------
(* Program constants *)

seqNoElemsNum == 30

maxDepth == 25

(* Bounds of the model *)

MaxNear == 5
MaxFar == 1
MaxPushes == 6
MaxBufs == 2
MaxSeq == 3
MaxRate == 2
MaxBookOps == 4
MaxUserCalls == 2
MaxDrops == 1
MaxData == 2
MaxCmds == 6
MaxInfos == 3

MaxGaps == 1

MaxWindows == 2

MaxChecks == 3

MaxPeriods == 3

MaxMsgs == 3
MaxDials == 2
MaxFails == 1

MaxCycles == 3
MaxTasks == 2

MaxLoans == 81

MaxRtUpdates == 2
MaxUpdates == 2
MaxClock == 320

NumCheckers == 2

----------------------------------------------------------------------------
(* Auxiliary sequence operators *)

Range(s) == { s[i] : i \in 1..Len(s) }

Interval(a, b) == [ i \in 1..(IF b >= a THEN b - a + 1 ELSE 0) |-> a + i - 1 ]

StrictlyIncreasing(s) == \A i \in 1..(Len(s) - 1) : s[i] < s[i + 1]

----------------------------------------------------------------------------
(* seqNoHandler *)

NoDiff == [Side |-> "none", Obe |-> [Id |-> 0, Rate |-> 0, Amount |-> 0]]

Nil == [seqNo |-> -1, diff |-> NoDiff]

EmptySlots == [ i \in 1..seqNoElemsNum |-> Nil ]

\* Go's slot index k (0-based) is position k + 1 here.
newSeqNoHandler == [haveSeqNo |-> FALSE, startSeqNo |-> 0, seqNosNum |-> 0, seqNos |-> EmptySlots]

clear(h) == [h EXCEPT !.haveSeqNo = FALSE, !.seqNosNum = 0, !.seqNos = EmptySlots]

\* copy(seqNos[:N-k], seqNos[k:]) followed by clearing the last k slots
ShiftSlots(slots, k) ==
    [ i \in 1..seqNoElemsNum |-> IF i + k <= seqNoElemsNum THEN slots[i + k] ELSE Nil ]

\* a drain that stops after one element
LeadingFullOne(slots, i) == IF slots[i + 1] # Nil THEN i + 1 ELSE i

\* a forced processing that hands nothing over
OccupiedNone(slots, i, k) == <<>>

\* number of leading non-nil slots
RECURSIVE LeadingFull(_, _)
LeadingFull(slots, i) ==
    IF i < seqNoElemsNum /\ slots[i + 1] # Nil THEN LeadingFull(slots, i + 1) ELSE i

\* the non-nil elements among the first k slots, in slot order
RECURSIVE Occupied(_, _, _)
Occupied(slots, i, k) ==
    IF i >= k THEN <<>>
    ELSE (IF slots[i + 1] # Nil THEN <<slots[i + 1]>> ELSE <<>>) \o Occupied(slots, i + 1, k)

PushResult(h, out, ret, pan) == [nh |-> h, out |-> out, ret |-> ret, panic |-> pan]

\* a push that processes whatever arrives and never moves the window
pushEmptyStale(h, e) == PushResult([h EXCEPT !.haveSeqNo = TRUE], <<e>>, TRUE, FALSE)

\* push with an empty queue (seqNosNum == 0)
pushEmpty(h, e) ==
    LET n == e.seqNo IN
    IF ~h.haveSeqNo THEN
        PushResult([h EXCEPT !.haveSeqNo = TRUE, !.startSeqNo = n + 1], <<e>>, TRUE, FALSE)
    ELSE IF n < h.startSeqNo THEN
        PushResult(h, <<>>, FALSE, FALSE)
    ELSE IF h.startSeqNo = n THEN
        PushResult([h EXCEPT !.startSeqNo = n + 1], <<e>>, TRUE, FALSE)
    ELSE IF n - h.startSeqNo < seqNoElemsNum THEN
        PushResult([h EXCEPT !.seqNos[n - h.startSeqNo + 1] = e,
                             !.seqNosNum = n - h.startSeqNo + 1], <<>>, TRUE, FALSE)
    ELSE
        PushResult([h EXCEPT !.startSeqNo = n - seqNoElemsNum + 1,
                             !.seqNos[seqNoElemsNum] = e,
                             !.seqNosNum = seqNoElemsNum], <<>>, FALSE, FALSE)

\* push into the window of a non-empty queue: queue, then drain the leading run
pushQueued(h, e) ==
    LET n == e.seqNo
        idx == n - h.startSeqNo + 1
    IN
    IF h.seqNos[idx] # Nil THEN PushResult(h, <<>>, FALSE, TRUE)
    ELSE
        LET slots1 == [h.seqNos EXCEPT ![idx] = e]
            i == LeadingFull(slots1, 0)
            start2 == h.startSeqNo + i
            num2 == h.seqNosNum - i
            slots2 == ShiftSlots(slots1, i)
            allNil == \A j \in 1..(seqNoElemsNum - i) : slots2[j] = Nil
            num3 == IF allNil THEN 0
                    ELSE IF num2 < n - start2 + 1 THEN n - start2 + 1 ELSE num2
        IN
        PushResult([h EXCEPT !.startSeqNo = start2, !.seqNosNum = num3, !.seqNos = slots2],
                   Occupied(slots1, 0, i), TRUE, FALSE)

RECURSIVE push(_, _)
push(h, e) ==
    LET n == e.seqNo IN
    IF h.seqNosNum = 0 THEN pushEmpty(h, e)
    ELSE IF n < h.startSeqNo THEN PushResult(h, <<>>, FALSE, FALSE)
    ELSE IF n - h.startSeqNo < seqNoElemsNum THEN pushQueued(h, e)
    ELSE
        \* no space in queue: force-process the head, move the window, push again
        LET tp0 == n - h.startSeqNo - seqNoElemsNum + 1
            toProcess == IF tp0 > seqNoElemsNum THEN seqNoElemsNum ELSE tp0
            start2 == IF toProcess = seqNoElemsNum THEN n - seqNoElemsNum + 1
                      ELSE h.startSeqNo + toProcess
            h2 == [h EXCEPT !.startSeqNo = start2,
                            !.seqNos = ShiftSlots(h.seqNos, toProcess),
                            !.seqNosNum = h.seqNosNum - toProcess]
            r == push(h2, e)
        IN
        PushResult(r.nh, Occupied(h.seqNos, 0, toProcess) \o r.out, FALSE, r.panic)

----------------------------------------------------------------------------
(* Order books: slices over shared backing arrays *)

\* OrderBookEntry.Cmp compares the rates only
Cmp(obe, obe2) == IF obe.Rate < obe2.Rate THEN -1 ELSE IF obe.Rate > obe2.Rate THEN 1 ELSE 0

OtherSide(side) == IF side = "Bid" THEN "Ask" ELSE "Bid"

\* a slice header: the backing array it points into and its length
Slice(a, n) == [arr |-> a, len |-> n]

\* backing arrays: those of rtob.initial and those of book k of pooled buffer b
InitialArr(side) == <<0, 0, side>>

BufArr(b, k, side) == <<b, k, side>>

\* the elements a slice shows
View(hp, hdr) == SubSeq(hp[hdr.arr], 1, hdr.len)

\* the value of a book: what a reader of the two slices sees
Deref(hp, book) == [Bid |-> View(hp, book.Bid), Ask |-> View(hp, book.Ask)]

\* append(hdr, elems...) within capacity: writes the elements in place
\* after the slice's length and returns the longer slice
appendTo(hp, hdr, elems) ==
    LET old == hp[hdr.arr]
        n == hdr.len + Len(elems)
        m == IF Len(old) > n THEN Len(old) ELSE n
        new == [ p \in 1..m |-> IF p > hdr.len /\ p <= n THEN elems[p - hdr.len] ELSE old[p] ]
    IN [heap |-> [hp EXCEPT ![hdr.arr] = new], hdr |-> Slice(hdr.arr, n)]

\* binary search for the insert position on one side
RECURSIVE search(_, _, _, _, _)
search(ett, obe, side, i, j) ==
    IF i < j THEN
        LET h == (i + j) \div 2
            c == Cmp(obe, ett[h + 1])
        IN IF (side = "Bid" /\ c < 0) \/ (side = "Ask" /\ c > 0)
           THEN search(ett, obe, side, h + 1, j)
           ELSE search(ett, obe, side, i, h)
    ELSE i

\* linear search for the entry to delete
RECURSIVE findId(_, _, _)
findId(ett, id, i) ==
    IF i < Len(ett) /\ ett[i + 1].Id # id THEN findId(ett, id, i + 1) ELSE i

\* where the diff goes: binary search by rate, or linear search by id to delete
position(hp, ett, diff) ==
    IF diff.Obe.Rate = 0 THEN findId(View(hp, ett), diff.Obe.Id, 0)
    ELSE search(View(hp, ett), diff.Obe, diff.Side, 0, ett.len)

\* xlen, corrected to maxDepth
xlenOf(stmpLen, destLen, i) ==
    IF stmpLen > (maxDepth - destLen) + i THEN (maxDepth - destLen) + i ELSE stmpLen

\* sdest = append(sdest, ett[i:xlen]...), ett read as it is now
copyRest(a2, ett, i) ==
    appendTo(a2.heap, a2.hdr, SubSeq(View(a2.heap, ett), i + 1, xlenOf(ett.len, a2.hdr.len, i)))

\* after the prefix: the new entry unless deleting, then the suffix from i, or
\* from i+1 if ett[i] is replaced or deleted
spliceTail(a1, ett, diff, i) ==
    copyRest(IF diff.Obe.Rate = 0 THEN a1 ELSE appendTo(a1.heap, a1.hdr, <<diff.Obe>>),
             ett,
             IF Cmp(diff.Obe, View(a1.heap, ett)[i + 1]) = 0 \/ diff.Obe.Rate = 0 THEN i + 1 ELSE i)

\* the diff goes past the end: it is appended if there is room
appendLast(a1, ett, diff) ==
    IF ett.len < maxDepth /\ diff.Obe.Rate # 0 THEN appendTo(a1.heap, a1.hdr, <<diff.Obe>>) ELSE a1

spliceAt(hp, ett, d0, diff, i) ==
    IF i < ett.len THEN spliceTail(appendTo(hp, d0, SubSeq(View(hp, ett), 1, i)), ett, diff, i)
    ELSE appendLast(appendTo(hp, d0, View(hp, ett)), ett, diff)

\* the side of the diff, written through sdest's own slice (ett is stmp's slice
\* of that side, d0 is sdest's slice cut to length 0)
applySide(hp, ett, d0, diff) == spliceAt(hp, ett, d0, diff, position(hp, ett, diff))

\* the other side: sdest.Y = stmp.Y[:0]; sdest.Y = append(sdest.Y, stmp.Y...)
\* makes sdest.Y a slice of stmp's own backing array
withOther(a, o, side) ==
    [heap |-> a.heap,
     dest |-> IF side = "Bid" THEN [Bid |-> a.hdr, Ask |-> Slice(o.arr, o.len)]
              ELSE [Bid |-> Slice(o.arr, o.len), Ask |-> a.hdr]]

\* stmp.applyDiff(sdest, diff)
applyDiff(hp, stmp, sdest, diff) ==
    withOther(applySide(hp, stmp[diff.Side], Slice(sdest[diff.Side].arr, 0), diff),
              stmp[OtherSide(diff.Side)], diff.Side)

----------------------------------------------------------------------------
(* rtOrderBookHandle: the order-book maintainer *)

newOrderBook(b, k) == [Bid |-> Slice(BufArr(b, k, "Bid"), 0), Ask |-> Slice(BufArr(b, k, "Ask"), 0)]

newOrderBooks(b) == [ k \in 1..seqNoElemsNum |-> newOrderBook(b, k) ]

BufArrs(b) == { BufArr(b, k, side) : k \in 1..seqNoElemsNum, side \in {"Bid", "Ask"} }

\* toHandlePool.Get(): buffer b is either one put back earlier or a new one
poolGet(hp, pool, b) ==
    IF b <= Len(pool) THEN [heap |-> hp, pool |-> pool]
    ELSE [heap |-> [ a \in DOMAIN hp \cup BufArrs(b) |-> IF a \in DOMAIN hp THEN hp[a] ELSE <<>> ],
          pool |-> Append(pool, newOrderBooks(b))]

newInitial == [Bid |-> Slice(InitialArr("Bid"), 0), Ask |-> Slice(InitialArr("Ask"), 0)]

\* initial.Bid = initial.Bid[:0]; initial.Ask = initial.Ask[:0]
truncated(book) == [Bid |-> Slice(book.Bid.arr, 0), Ask |-> Slice(book.Ask.arr, 0)]

pairBook(bidHdr, b) == [heap |-> b.heap, book |-> [Bid |-> bidHdr, Ask |-> b.hdr]]

copyAsk(a, book, srcAsk) ==
    pairBook(a.hdr, appendTo(a.heap, Slice(book.Ask.arr, 0), View(a.heap, srcAsk)))

\* book.X = append(book.X[:0], src.X...) for both sides
copyInto(hp, book, srcBid, srcAsk) ==
    copyAsk(appendTo(hp, Slice(book.Bid.arr, 0), View(hp, srcBid)), book, srcAsk)

checkFirstSeqNo(initSeq, first) == initSeq + 1 >= first

\* index of the first pending diff newer than the snapshot
RECURSIVE firstNewer(_, _, _)
firstNewer(pend, initSeq, i) ==
    IF i < Len(pend) /\ ~(initSeq < pend[i + 1].seqNo) THEN firstNewer(pend, initSeq, i + 1) ELSE i

\* toHandle[k-1].applyDiff(&toHandle[k], diff) for each pending diff in turn
RECURSIVE foldDiffs(_, _, _, _, _)
RECURSIVE foldNext(_, _, _, _)
foldDiffs(hp, books, src, diffs, k) ==
    IF diffs = <<>> \/ k > seqNoElemsNum THEN [heap |-> hp, books |-> books]
    ELSE foldNext(applyDiff(hp, src, books[k], Head(diffs).diff), books, Tail(diffs), k)

\* (toHandle[k] is written in full before the next diff is applied to it; the
\* test makes the evaluation follow that order)
foldNext(r, books, diffs, k) ==
    IF r.dest.Bid.len >= 0
    THEN foldDiffs(r.heap, [books EXCEPT ![k] = r.dest], r.dest, diffs, k + 1)
    ELSE [heap |-> r.heap, books |-> books]

ProcessResult(hp, pool, ini, iseq, have, pend, num, out, pan) ==
    [heap |-> hp, pool |-> pool, initial |-> ini, initialSeqNo |-> iseq, haveInitial |-> have,
     pendings |-> pend, num |-> num, haveOut |-> out, panic |-> pan]

\* the snapshot becomes a copy of the last book
foldResult(c, pool, iseq, num) ==
    ProcessResult(c.heap, pool, c.book, iseq, TRUE, <<>>, num, TRUE, FALSE)

\* after the fold; toHandle[seqNoElemsNum] is an index out of range
finishFold(f, pool, ini, iseq, pend, num, b) ==
    IF num > seqNoElemsNum THEN
        ProcessResult(f.heap, [pool EXCEPT ![b] = f.books], ini, iseq, TRUE, pend, 0, FALSE, TRUE)
    ELSE
        foldResult(copyInto(f.heap, ini, f.books[num].Bid, f.books[num].Ask),
                   [pool EXCEPT ![b] = f.books], pend[Len(pend)].seqNo, num)

\* real process: fold the pendings after the first i into the books of buffer b
processReal(g, ini, iseq, pend, i, b) ==
    finishFold(foldDiffs(g.heap, g.pool[b], ini, SubSeq(pend, i + 1, Len(pend)), 1),
               g.pool, ini, iseq, pend, Len(pend) - i, b)

skipOld(hp, pool, ini, iseq, pend, i, b) ==
    IF i = Len(pend) THEN ProcessResult(hp, pool, ini, iseq, TRUE, <<>>, 0, FALSE, FALSE)
    ELSE processReal(poolGet(hp, pool, b), ini, iseq, pend, i, b)

\* tryProcessInt, with b the buffer that toHandlePool.Get() returns
tryProcessInt(hp, pool, ini, iseq, have, pend, b) ==
    IF pend = <<>> \/ ~have THEN
        ProcessResult(hp, pool, ini, iseq, have, pend, 0, FALSE, FALSE)
    ELSE IF ~checkFirstSeqNo(iseq, pend[1].seqNo) THEN
        ProcessResult(hp, pool, truncated(ini), iseq, FALSE, pend, 0, FALSE, FALSE)
    ELSE skipOld(hp, pool, ini, iseq, pend, firstNewer(pend, iseq, 0), b)

\* the values a reader sees in the first num books of a buffer
OutValues(hp, books, num) == [ k \in 1..num |-> Deref(hp, books[k]) ]

\* what df.orderBook holds after the handler of h has stored its book
storedBy(h) == [op |-> h.op, idx |-> h.idx]

\* tryProcessEnd: several books are handed to goroutines that keep running,
\* a single one is handled before the call returns
tryProcessEnd(t, b) ==
    /\ heap' = t.heap
    /\ toHandlePool' = t.pool
    /\ initial' = t.initial
    /\ initialSeqNo' = t.initialSeqNo
    /\ haveInitial' = t.haveInitial
    /\ pendings' = t.pendings
    /\ lastOut' = IF t.haveOut THEN OutValues(t.heap, t.pool[b], t.num) ELSE <<>>
    /\ running' = IF t.haveOut /\ t.num > 1
                  THEN running \cup { [buf |-> b, idx |-> k, book |-> Deref(t.heap, t.pool[b][k]),
                                        op |-> bookOps + 1] :
                                        k \in 1..t.num }
                  ELSE running
    /\ dfOrderBook' = IF t.haveOut /\ t.num = 1 THEN [op |-> bookOps + 1, idx |-> 1]
                      ELSE dfOrderBook
    /\ bookPanic' = t.panic
    /\ bookOps' = bookOps + 1

\* pushInitialInt: the snapshot is copied into rtob.initial, then tryProcessInt
setInitial(c, seqNo, b) ==
    tryProcessInt(c.heap, toHandlePool, c.book, seqNo, TRUE, pendings, b)

copyAskIn(a, ob) == pairBook(a.hdr, appendTo(a.heap, Slice(initial.Ask.arr, 0), ob.Ask))

pushInitialInt(seqNo, ob, b) ==
    setInitial(copyAskIn(appendTo(heap, Slice(initial.Bid.arr, 0), ob.Bid), ob), seqNo, b)

\* pushInitial(seqNo, ob)
PushInitial(seqNo, ob, b) ==
    /\ ~bookPanic
    /\ bookOps < MaxBookOps
    /\ tryProcessEnd(pushInitialInt(seqNo, ob, b), b)
    /\ UNCHANGED nh

\* pushDiffInt after snHandler.push returned r, then tryProcessEnd
afterPush(r, b) ==
    IF r.panic THEN
        /\ bookPanic' = TRUE
        /\ bookOps' = bookOps + 1
        /\ UNCHANGED <<nh, heap, toHandlePool, initial, initialSeqNo, haveInitial, pendings,
                       running, lastOut, dfOrderBook>>
    ELSE
        /\ nh' = IF r.ret THEN r.nh ELSE clear(r.nh)
        /\ tryProcessEnd(tryProcessInt(heap, toHandlePool,
                                       IF r.ret THEN initial ELSE truncated(initial),
                                       initialSeqNo, haveInitial /\ r.ret, pendings \o r.out, b), b)

\* pushDiff(seqNo, diff)
PushDiff(seqNo, diff, b) ==
    /\ ~bookPanic
    /\ bookOps < MaxBookOps
    /\ afterPush(push(nh, [seqNo |-> seqNo, diff |-> diff]), b)

\* rtob.clear()
ClearBook ==
    /\ ~bookPanic
    /\ bookOps < MaxBookOps
    /\ nh' = clear(nh)
    /\ initial' = truncated(initial)
    /\ haveInitial' = FALSE
    /\ pendings' = <<>>
    /\ bookOps' = bookOps + 1
    /\ UNCHANGED <<heap, toHandlePool, initialSeqNo, running, lastOut, dfOrderBook, bookPanic>>

\* a handler goroutine runs: DataFetcher.orderBookHandler stores the book and
\* hands it to the engine, then returns
HandlerReturn(h) ==
    /\ h \in running
    /\ running' = running \ {h}
    /\ dfOrderBook' = storedBy(h)
    /\ UNCHANGED <<nh, heap, toHandlePool, initial, initialSeqNo, haveInitial, pendings,
                   lastOut, bookOps, bookPanic>>

----------------------------------------------------------------------------
(* SpecBook: the maintainer fed with snapshots and diffs *)

Entry(id, rate, amount) == [Id |-> id, Rate |-> rate, Amount |-> amount]

\* entries with rates lo..hi, ascending
RatesAsc(lo, hi) == [ i \in 1..(hi - lo + 1) |-> Entry(lo + i - 1, lo + i - 1, 1) ]

Reverse(s) == [ i \in 1..Len(s) |-> s[Len(s) + 1 - i] ]

SmallBook == [Bid |-> <<Entry(3, 3, 1), Entry(1, 1, 1)>>, Ask |-> <<Entry(1, 1, 1), Entry(3, 3, 1)>>]

\* both sides at maxDepth
FullBook == [Bid |-> Reverse(RatesAsc(3, maxDepth + 2)), Ask |-> RatesAsc(3, maxDepth + 2)]

SnapshotBooks == {SmallBook, FullBook}

FarSeqNo == MaxSeq + seqNoElemsNum + 1

DiffSeqNos == (1..MaxSeq) \cup {FarSeqNo}

\* price-level updates and deletions (rate zero) of the order with the given id
DiffInputs ==
    { [Side |-> side, Obe |-> Entry(r, r, 2)] : side \in {"Bid", "Ask"}, r \in 1..MaxRate }
        \cup { [Side |-> side, Obe |-> Entry(id, 0, 0)] : side \in {"Bid", "Ask"}, id \in {1, 3} }

PoolChoices == 1..(IF Len(toHandlePool) < MaxBufs THEN Len(toHandlePool) + 1 ELSE MaxBufs)

InitBookVars ==
    /\ heap = [ a \in {InitialArr("Bid"), InitialArr("Ask")} |-> <<>> ]
    /\ toHandlePool = <<>>
    /\ initial = newInitial
    /\ initialSeqNo = 0
    /\ haveInitial = FALSE
    /\ pendings = <<>>
    /\ running = {}
    /\ lastOut = <<>>
    /\ dfOrderBook = [op |-> 0, idx |-> 0]
    /\ bookOps = 0
    /\ bookPanic = FALSE

InitSeqVars ==
    /\ nh = newSeqNoHandler
    /\ processed = <<>>
    /\ firstPush = -1
    /\ pushedSet = {}
    /\ lastPush = -1
    /\ pushCount = 0
    /\ dupPush = FALSE
    /\ farPush = FALSE
    /\ lastRet = "none"

----------------------------------------------------------------------------
(* The websocket driver and the channel manager *)

ChannelTypes == {"trades", "book"}

\* the order in which resubscribeChannels walks the handler maps
ResubOrder == <<"ticker", "trades", "book">>

Msg(t, chanId, cmd, n) == [t |-> t, chanId |-> chanId, cmd |-> cmd, n |-> n]

NoMsg == Msg("none", 0, 0, 0)

Command(op, typ, chanId, cmd) == [op |-> op, typ |-> typ, chanId |-> chanId, cmd |-> cmd]

NoEntry == [present |-> FALSE, channelType |-> "none", key |-> "", firstMsgs |-> <<>>]

NoCall ==
    [kind |-> "none", typ |-> "none", pc |-> "none", cmd |-> 0, ok |-> FALSE, val |-> 0,
     err |-> "", todo |-> <<>>, stage |-> 0, interrupted |-> FALSE]

NewCall(kind, typ, todo, stage) ==
    [NoCall EXCEPT !.kind = kind, !.typ = typ, !.pc = "send", !.todo = todo, !.stage = stage]

NoOutcome == [op |-> "none", cmd |-> 0, ok |-> FALSE, val |-> 0, err |-> "", interrupted |-> FALSE]

InitWSVars ==
    /\ conn = "up"
    /\ wire = <<>>
    /\ cmds = <<>>
    /\ srv = {}
    /\ funcRetCh = <<>>
    /\ funcErrCh = <<>>
    /\ chans = "open"
    /\ awaitingFuncRet = 0
    /\ channelsOpened = 1
    /\ handlersReg = {}
    /\ chanIdMap = [ t \in ChannelTypes |-> -1 ]
    /\ wsChannelMap = [ i \in 0..MaxCmds |-> NoEntry ]
    /\ dpc = "select"
    /\ dmsg = NoMsg
    /\ call = NoCall
    /\ resubWaiting = FALSE
    /\ rebookWaiting = FALSE
    /\ replay = <<>>
    /\ stopping = FALSE
    /\ crashed = FALSE
    /\ wsGhost = [userCalls |-> 0, drops |-> 0, data |-> 0, nextCmd |-> 1, gaps |-> 0,
                  received |-> {}, handled |-> {}, accepted |-> {}, refused |-> {},
                  outcome |-> NoOutcome, needResub |-> {}, bookDirty |-> FALSE,
                  bookCleared |-> FALSE, rebookAsked |-> FALSE, infos |-> 0]

\* the operation a call sends next
OpOf(c) == IF c.kind = "unsub" \/ (c.kind = "rebook" /\ c.stage = 1) THEN "unsub" ELSE "sub"

\* the types that have a handler, in the order resubscribeChannels visits them
RECURSIVE RegisteredIn(_, _)
RegisteredIn(order, reg) ==
    IF order = <<>> THEN <<>>
    ELSE (IF Head(order) \in reg THEN <<Head(order)>> ELSE <<>>) \o RegisteredIn(Tail(order), reg)

\* a panic leaves a call of the user (its deferred unlock runs); in a goroutine
\* of the driver nothing recovers it
Panic(c) ==
    IF c.kind \in {"sub", "unsub"} THEN call' = NoCall /\ crashed' = crashed
    ELSE call' = c /\ crashed' = TRUE

\* SubscribeTrades, SubscribeOrderBook: take callMutex
UserSubscribe(t) ==
    /\ ~crashed
    /\ call.kind = "none"
    /\ wsGhost.userCalls < MaxUserCalls
    /\ t \notin handlersReg
    /\ call' = NewCall("sub", t, <<>>, 0)
    /\ wsGhost' = [wsGhost EXCEPT !.userCalls = @ + 1]
    /\ UNCHANGED <<conn, wire, cmds, srv, funcRetCh, funcErrCh, chans, awaitingFuncRet,
                   channelsOpened, handlersReg, chanIdMap, wsChannelMap, dpc, dmsg,
                   resubWaiting, rebookWaiting, replay, stopping, crashed>>

\* UnsubscribeTrades, UnsubscribeOrderBook: take callMutex
UserUnsubscribe(t) ==
    /\ ~crashed
    /\ call.kind = "none"
    /\ wsGhost.userCalls < MaxUserCalls
    /\ t \in handlersReg
    /\ chanIdMap[t] # -1
    /\ call' = NewCall("unsub", t, <<>>, 0)
    /\ wsGhost' = [wsGhost EXCEPT !.userCalls = @ + 1]
    /\ UNCHANGED <<conn, wire, cmds, srv, funcRetCh, funcErrCh, chans, awaitingFuncRet,
                   channelsOpened, handlersReg, chanIdMap, wsChannelMap, dpc, dmsg,
                   resubWaiting, rebookWaiting, replay, stopping, crashed>>

\* resubscribeChannels gets callMutex: wsLateInit, then the first channel
\* (an order book is cleared before its subscribe command)
ResubStart ==
    /\ ~crashed
    /\ resubWaiting
    /\ call.kind = "none"
    /\ resubWaiting' = FALSE
    /\ wsChannelMap' = [ i \in 0..MaxCmds |-> NoEntry ]
    /\ chanIdMap' = [ t \in ChannelTypes |-> -1 ]
    /\ LET todo == RegisteredIn(ResubOrder, handlersReg) IN
        /\ call' = IF todo = <<>> THEN NoCall ELSE NewCall("resub", Head(todo), Tail(todo), 0)
        /\ wsGhost' = IF todo # <<>> /\ Head(todo) = "book"
                      THEN [wsGhost EXCEPT !.bookDirty = FALSE, !.bookCleared = TRUE]
                      ELSE wsGhost
    /\ UNCHANGED <<conn, wire, cmds, srv, funcRetCh, funcErrCh, chans, awaitingFuncRet,
                   channelsOpened, handlersReg, dpc, dmsg, rebookWaiting, replay, stopping,
                   crashed>>

\* resubscribeOrderBook gets callMutex
RebookStart ==
    /\ ~crashed
    /\ rebookWaiting
    /\ call.kind = "none"
    /\ rebookWaiting' = FALSE
    /\ call' = NewCall("rebook", "book", <<>>, 1)
    /\ UNCHANGED <<conn, wire, cmds, srv, funcRetCh, funcErrCh, chans, awaitingFuncRet,
                   channelsOpened, handlersReg, chanIdMap, wsChannelMap, dpc, dmsg,
                   resubWaiting, replay, stopping, crashed, wsGhost>>

\* handleCommand: sendCommand (waits for connMutex while tryReconnect holds it;
\* the result of WriteMessage is ignored)
CallSend ==
    /\ ~crashed
    /\ call.pc = "send"
    /\ conn # "dialing"
    /\ wsGhost.nextCmd <= MaxCmds
    /\ IF conn = "nil" THEN
          /\ Panic(call)
          /\ UNCHANGED <<cmds, wsGhost>>
       ELSE
          /\ cmds' = IF conn = "up"
                     THEN Append(cmds, Command(OpOf(call), call.typ, chanIdMap[call.typ],
                                               wsGhost.nextCmd))
                     ELSE cmds
          /\ call' = [call EXCEPT !.pc = "sent", !.cmd = wsGhost.nextCmd]
          /\ wsGhost' = [wsGhost EXCEPT !.nextCmd = @ + 1]
          /\ crashed' = crashed
    /\ UNCHANGED <<conn, wire, srv, funcRetCh, funcErrCh, chans, awaitingFuncRet,
                   channelsOpened, handlersReg, chanIdMap, wsChannelMap, dpc, dmsg,
                   resubWaiting, rebookWaiting, replay, stopping>>

\* handleCommand: atomic.StoreUint32(&drv.awaitingFuncRet, 1) and the entry
\* into the select; after stop() both channels are nil and the select blocks
CallAwait ==
    /\ ~crashed
    /\ call.pc = "sent"
    /\ awaitingFuncRet' = 1
    /\ call' = [call EXCEPT !.pc = IF chans = "open" THEN "waiting" ELSE "blocked"]
    /\ UNCHANGED <<conn, wire, cmds, srv, funcRetCh, funcErrCh, chans, channelsOpened,
                   handlersReg, chanIdMap, wsChannelMap, dpc, dmsg, resubWaiting,
                   rebookWaiting, replay, stopping, crashed, wsGhost>>

\* handleCommand: the select on funcRetCh and funcErrCh; a closed channel
\* yields its zero value
CallSelect ==
    /\ ~crashed
    /\ call.pc = "waiting"
    /\ \/ /\ funcRetCh # <<>>
          /\ call' = [call EXCEPT !.pc = "got", !.ok = TRUE, !.val = Head(funcRetCh)]
          /\ funcRetCh' = Tail(funcRetCh)
          /\ UNCHANGED funcErrCh
       \/ /\ funcErrCh # <<>>
          /\ call' = [call EXCEPT !.pc = "got", !.ok = FALSE, !.err = Head(funcErrCh)]
          /\ funcErrCh' = Tail(funcErrCh)
          /\ UNCHANGED funcRetCh
       \/ /\ chans = "closed"
          /\ funcRetCh = <<>> \/ funcErrCh = <<>>
          /\ call' = [call EXCEPT !.pc = "got", !.ok = TRUE, !.val = 0]
          /\ UNCHANGED <<funcRetCh, funcErrCh>>
    /\ UNCHANGED <<conn, wire, cmds, srv, chans, awaitingFuncRet, channelsOpened,
                   handlersReg, chanIdMap, wsChannelMap, dpc, dmsg, resubWaiting,
                   rebookWaiting, replay, stopping, crashed, wsGhost>>

\* wsAddChannel: bind the entry of a channel id to its key and take its queued
\* first messages away
wsAddChannel(m, id, typ) ==
    [m EXCEPT ![id] = [present |-> TRUE, channelType |-> typ, key |-> typ, firstMsgs |-> <<>>]]

\* the first messages wsAddChannel hands to the handler: only with callFirsts
firstsOf(m, id, callFirsts) ==
    IF m[id].present /\ callFirsts THEN m[id].firstMsgs ELSE <<>>

\* the call that follows a finished one
nextCall(c) ==
    IF c.kind = "resub" /\ c.todo # <<>> THEN NewCall("resub", Head(c.todo), Tail(c.todo), 0)
    ELSE IF c.kind = "rebook" /\ c.stage = 1 THEN NewCall("rebook", "book", <<>>, 2)
    ELSE NoCall

outcomeOf(c) ==
    [op |-> OpOf(c), cmd |-> c.cmd, ok |-> c.ok, val |-> c.val, err |-> c.err,
     interrupted |-> c.interrupted]

\* the order book is cleared before the resubscription of the book channel is sent
clearsBook(c) == c.kind = "resub" /\ c.todo # <<>> /\ Head(c.todo) = "book"

\* handleCommand returns: the deferred store of awaitingFuncRet, ErrorPanic on
\* an error, and the caller's bookkeeping (subscribe*Int, unsubscribe*,
\* resubscribeOrderBook, wsResubscribeChannel)
CallReturn ==
    /\ ~crashed
    /\ call.pc = "got"
    /\ awaitingFuncRet' = 0
    /\ IF ~call.ok \/ (OpOf(call) = "sub" /\ conn = "nil") THEN
          /\ Panic(call)
          /\ wsGhost' = [wsGhost EXCEPT !.outcome = outcomeOf(call)]
          /\ handlersReg' = IF call.ok /\ call.kind = "sub" THEN handlersReg \cup {call.typ}
                            ELSE handlersReg
          /\ UNCHANGED <<chanIdMap, wsChannelMap, replay>>
       ELSE IF OpOf(call) = "sub" THEN
          /\ handlersReg' = handlersReg \cup {call.typ}
          /\ chanIdMap' = [chanIdMap EXCEPT ![call.typ] = call.val]
          /\ wsChannelMap' = wsAddChannel(wsChannelMap, call.val, call.typ)
          /\ replay' = replay \o firstsOf(wsChannelMap, call.val, call.typ = "book")
          /\ call' = nextCall(call)
          /\ wsGhost' = [wsGhost EXCEPT !.outcome = outcomeOf(call),
                                        !.bookDirty = IF clearsBook(call) THEN FALSE ELSE @,
                                        !.bookCleared = clearsBook(call) \/ @,
                                        !.rebookAsked = IF call.typ = "book" THEN FALSE ELSE @]
          /\ crashed' = crashed
       ELSE
          /\ handlersReg' = IF call.kind = "unsub" THEN handlersReg \ {call.typ} ELSE handlersReg
          /\ chanIdMap' = [chanIdMap EXCEPT ![call.typ] = -1]
          /\ wsChannelMap' = IF chanIdMap[call.typ] = -1 THEN wsChannelMap
                             ELSE [wsChannelMap EXCEPT ![chanIdMap[call.typ]] = NoEntry]
          /\ call' = nextCall(call)
          /\ wsGhost' = [wsGhost EXCEPT !.outcome = outcomeOf(call)]
          /\ UNCHANGED <<replay, crashed>>
    /\ UNCHANGED <<conn, wire, cmds, srv, funcRetCh, funcErrCh, chans, channelsOpened, dpc,
                   dmsg, resubWaiting, rebookWaiting, stopping>>

\* wsAddChannel: one queued first message is handed to the handler
ReplayStep ==
    /\ ~crashed
    /\ replay # <<>>
    /\ replay' = Tail(replay)
    /\ wsGhost' = [wsGhost EXCEPT !.handled = @ \cup {Head(replay)},
                                  !.bookDirty = TRUE]
    /\ UNCHANGED <<conn, wire, cmds, srv, funcRetCh, funcErrCh, chans, awaitingFuncRet,
                   channelsOpened, handlersReg, chanIdMap, wsChannelMap, dpc, dmsg, call,
                   resubWaiting, rebookWaiting, stopping, crashed>>

\* wsHandleMessage, an event other than "error": sendFuncRet(chanId)
DispatchEvent ==
    /\ ~crashed
    /\ dpc = "select"
    /\ conn = "up"
    /\ wire # <<>>
    /\ Head(wire).t \in {"sub", "unsub", "info"}
    /\ wire' = Tail(wire)
    /\ IF channelsOpened # 0
       THEN Len(funcRetCh) < 2 /\ funcRetCh' = Append(funcRetCh, Head(wire).chanId)
       ELSE funcRetCh' = funcRetCh
    /\ UNCHANGED <<conn, cmds, srv, funcErrCh, chans, awaitingFuncRet, channelsOpened,
                   handlersReg, chanIdMap, wsChannelMap, dpc, dmsg, call, resubWaiting,
                   rebookWaiting, replay, stopping, crashed, wsGhost>>

\* wsHandleMessage, the "error" event: sendErr(errors.New(msg))
DispatchError ==
    /\ ~crashed
    /\ dpc = "select"
    /\ conn = "up"
    /\ wire # <<>>
    /\ Head(wire).t = "err"
    /\ wire' = Tail(wire)
    /\ IF channelsOpened # 0
       THEN Len(funcErrCh) < 2 /\ funcErrCh' = Append(funcErrCh, "server")
       ELSE funcErrCh' = funcErrCh
    /\ UNCHANGED <<conn, cmds, srv, funcRetCh, chans, awaitingFuncRet, channelsOpened,
                   handlersReg, chanIdMap, wsChannelMap, dpc, dmsg, call, resubWaiting,
                   rebookWaiting, replay, stopping, crashed, wsGhost>>

\* the channel a command message is delivered to
fullFor(m) == IF m.t = "err" THEN Len(funcErrCh) = 2 ELSE Len(funcRetCh) = 2

\* wsHandleMessage, an event or an error with the channel full: the dispatcher
\* has passed the test of channelsOpened and blocks in the send
DispatchStall ==
    /\ ~crashed
    /\ dpc = "select"
    /\ conn = "up"
    /\ wire # <<>>
    /\ Head(wire).t \in {"sub", "unsub", "info", "err"}
    /\ channelsOpened # 0
    /\ fullFor(Head(wire))
    /\ wire' = Tail(wire)
    /\ dpc' = "sending"
    /\ dmsg' = Head(wire)
    /\ UNCHANGED <<conn, cmds, srv, funcRetCh, funcErrCh, chans, awaitingFuncRet,
                   channelsOpened, handlersReg, chanIdMap, wsChannelMap, call, resubWaiting,
                   rebookWaiting, replay, stopping, crashed, wsGhost>>

\* the blocked send goes through once a receiver has taken a value
DeliverStalled ==
    /\ ~crashed
    /\ dpc = "sending"
    /\ ~fullFor(dmsg)
    /\ funcRetCh' = IF dmsg.t = "err" THEN funcRetCh ELSE Append(funcRetCh, dmsg.chanId)
    /\ funcErrCh' = IF dmsg.t = "err" THEN Append(funcErrCh, "server") ELSE funcErrCh
    /\ dpc' = "select"
    /\ dmsg' = NoMsg
    /\ UNCHANGED <<conn, wire, cmds, srv, chans, awaitingFuncRet, channelsOpened,
                   handlersReg, chanIdMap, wsChannelMap, call, resubWaiting, rebookWaiting,
                   replay, stopping, crashed, wsGhost>>

\* wsHandleMessage, a channel message: LoadOrStore of an entry holding the
\* message, handleChannelMessage when the entry has a key, and otherwise the
\* append to firstMsgs as a later step
DispatchData ==
    /\ ~crashed
    /\ dpc = "select"
    /\ conn = "up"
    /\ wire # <<>>
    /\ Head(wire).t = "chan"
    /\ wire' = Tail(wire)
    /\ LET m == Head(wire) IN
       IF ~wsChannelMap[m.chanId].present THEN
          /\ wsChannelMap' = [wsChannelMap EXCEPT ![m.chanId] =
                                 [present |-> TRUE, channelType |-> "none", key |-> "",
                                  firstMsgs |-> <<m>>]]
          /\ wsGhost' = [wsGhost EXCEPT !.received = @ \cup {m}]
          /\ UNCHANGED <<dpc, dmsg>>
       ELSE IF wsChannelMap[m.chanId].key # "" THEN
          /\ wsGhost' = [wsGhost EXCEPT
                            !.received = @ \cup {m}, !.handled = @ \cup {m},
                            !.bookDirty = @ \/ wsChannelMap[m.chanId].channelType = "book"]
          /\ UNCHANGED <<wsChannelMap, dpc, dmsg>>
       ELSE
          /\ dpc' = "append"
          /\ dmsg' = m
          /\ wsGhost' = [wsGhost EXCEPT !.received = @ \cup {m}]
          /\ UNCHANGED wsChannelMap
    /\ UNCHANGED <<conn, cmds, srv, funcRetCh, funcErrCh, chans, awaitingFuncRet,
                   channelsOpened, handlersReg, chanIdMap, call, resubWaiting, rebookWaiting,
                   replay, stopping, crashed>>

\* wsHandleMessage: chEntry.firstMsgs = append(chEntry.firstMsgs, msg), on the
\* entry loaded before
DispatchAppend ==
    /\ ~crashed
    /\ dpc = "append"
    /\ dpc' = "select"
    /\ dmsg' = NoMsg
    /\ wsChannelMap' = IF wsChannelMap[dmsg.chanId].present
                       THEN [wsChannelMap EXCEPT ![dmsg.chanId].firstMsgs = Append(@, dmsg)]
                       ELSE wsChannelMap
    /\ UNCHANGED <<conn, wire, cmds, srv, funcRetCh, funcErrCh, chans, awaitingFuncRet,
                   channelsOpened, handlersReg, chanIdMap, call, resubWaiting, rebookWaiting,
                   replay, stopping, crashed, wsGhost>>

\* the server answers a command: "subscribed" with a new channel id,
\* "unsubscribed", or an "error" event
ServerReply ==
    /\ conn = "up"
    /\ cmds # <<>>
    /\ cmds' = Tail(cmds)
    /\ LET c == Head(cmds) IN
       \/ /\ c.op = "sub"
          /\ srv' = srv \cup {c.cmd}
          /\ wire' = Append(wire, Msg("sub", c.cmd, c.cmd, 0))
          /\ wsGhost' = [wsGhost EXCEPT !.accepted = @ \cup {c.cmd}]
       \/ /\ c.op = "unsub"
          /\ c.chanId \in srv
          /\ srv' = srv \ {c.chanId}
          /\ wire' = Append(wire, Msg("unsub", c.chanId, c.cmd, 0))
          /\ wsGhost' = [wsGhost EXCEPT !.accepted = @ \cup {c.cmd}]
       \/ /\ c.op = "sub" \/ c.chanId \notin srv
          /\ srv' = srv
          /\ wire' = Append(wire, Msg("err", 0, c.cmd, 0))
          /\ wsGhost' = [wsGhost EXCEPT !.refused = @ \cup {c.cmd}]
    /\ UNCHANGED <<conn, funcRetCh, funcErrCh, chans, awaitingFuncRet, channelsOpened,
                   handlersReg, chanIdMap, wsChannelMap, dpc, dmsg, call, resubWaiting,
                   rebookWaiting, replay, stopping, crashed>>

\* the server sends an event of its own ({"event":"info",...}), which answers
\* no command
ServerInfo ==
    /\ conn = "up"
    /\ wsGhost.infos < MaxInfos
    /\ wire' = Append(wire, Msg("info", 0, 0, 0))
    /\ wsGhost' = [wsGhost EXCEPT !.infos = @ + 1]
    /\ UNCHANGED <<conn, cmds, srv, funcRetCh, funcErrCh, chans, awaitingFuncRet,
                   channelsOpened, handlersReg, chanIdMap, wsChannelMap, dpc, dmsg, call,
                   resubWaiting, rebookWaiting, replay, stopping, crashed>>

\* the server sends a message of a subscribed channel
ServerData(id) ==
    /\ conn = "up"
    /\ id \in srv
    /\ wsGhost.data < MaxData
    /\ wire' = Append(wire, Msg("chan", id, 0, wsGhost.data + 1))
    /\ wsGhost' = [wsGhost EXCEPT !.data = @ + 1]
    /\ UNCHANGED <<conn, cmds, srv, funcRetCh, funcErrCh, chans, awaitingFuncRet,
                   channelsOpened, handlersReg, chanIdMap, wsChannelMap, dpc, dmsg, call,
                   resubWaiting, rebookWaiting, replay, stopping, crashed>>

\* the connection breaks: what was in flight is lost and the server forgets
\* the subscriptions of the connection
ConnLost ==
    /\ conn = "up"
    /\ wsGhost.drops < MaxDrops
    /\ conn' = "broken"
    /\ wire' = <<>>
    /\ cmds' = <<>>
    /\ srv' = {}
    /\ wsGhost' = [wsGhost EXCEPT !.drops = @ + 1]
    /\ UNCHANGED <<funcRetCh, funcErrCh, chans, awaitingFuncRet, channelsOpened, handlersReg,
                   chanIdMap, wsChannelMap, dpc, dmsg, call, resubWaiting, rebookWaiting,
                   replay, stopping, crashed>>

\* a call that has sent its command is cut off by a disconnection or a stop
cutOff(c) == IF c.pc \in {"sent", "waiting"} THEN [c EXCEPT !.interrupted = TRUE] ELSE c

\* handleMessages reads the read error; reconnect(): the error for a call
\* marked as awaiting, then tryReconnect takes connMutex
ReconnectBegin ==
    /\ ~crashed
    /\ dpc = "select"
    /\ conn = "broken"
    /\ IF awaitingFuncRet # 0 /\ channelsOpened # 0
       THEN Len(funcErrCh) < 2 /\ funcErrCh' = Append(funcErrCh, "disconnection")
       ELSE funcErrCh' = funcErrCh
    /\ conn' = "dialing"
    /\ dpc' = "reconnecting"
    /\ call' = cutOff(call)
    /\ UNCHANGED <<wire, cmds, srv, funcRetCh, chans, awaitingFuncRet, channelsOpened,
                   handlersReg, chanIdMap, wsChannelMap, dmsg, resubWaiting, rebookWaiting,
                   replay, stopping, crashed, wsGhost>>

\* tryReconnect succeeds (dial, wait, initMessage); reconnect() starts the
\* goroutine of resubscribeChannels
ReconnectEnd ==
    /\ ~crashed
    /\ dpc = "reconnecting"
    /\ ~stopping
    /\ conn' = "up"
    /\ dpc' = "select"
    /\ resubWaiting' = TRUE
    /\ wsGhost' = [wsGhost EXCEPT !.needResub = handlersReg, !.bookCleared = FALSE]
    /\ UNCHANGED <<wire, cmds, srv, funcRetCh, funcErrCh, chans, awaitingFuncRet,
                   channelsOpened, handlersReg, chanIdMap, wsChannelMap, dmsg, call,
                   rebookWaiting, replay, stopping, crashed>>

\* stop() up to the send on stopCh: the error for a call marked as awaiting,
\* the handler maps are emptied, channelsOpened is reset
StopBegin ==
    /\ ~crashed
    /\ ~stopping
    /\ IF awaitingFuncRet # 0 /\ channelsOpened # 0
       THEN Len(funcErrCh) < 2 /\ funcErrCh' = Append(funcErrCh, "stopping")
       ELSE funcErrCh' = funcErrCh
    /\ handlersReg' = {}
    /\ channelsOpened' = 0
    /\ stopping' = TRUE
    /\ call' = cutOff(call)
    /\ UNCHANGED <<conn, wire, cmds, srv, funcRetCh, chans, awaitingFuncRet, chanIdMap,
                   wsChannelMap, dpc, dmsg, resubWaiting, rebookWaiting, replay, crashed,
                   wsGhost>>

\* the dispatcher takes stopCh; stop() closes the connection and both channels
\* and resets awaitingFuncRet, Stop() drops the channel maps
StopFinish ==
    /\ ~crashed
    /\ stopping
    /\ conn # "nil"
    /\ dpc \in {"select", "reconnecting"}
    /\ dpc' = "stopped"
    /\ conn' = "nil"
    /\ chans' = "closed"
    /\ awaitingFuncRet' = 0
    /\ wire' = <<>>
    /\ cmds' = <<>>
    /\ srv' = {}
    /\ chanIdMap' = [ t \in ChannelTypes |-> -1 ]
    /\ wsChannelMap' = [ i \in 0..MaxCmds |-> NoEntry ]
    /\ call' = cutOff(call)
    /\ UNCHANGED <<funcRetCh, funcErrCh, channelsOpened, handlersReg, dmsg,
                   resubWaiting, rebookWaiting, replay, stopping, crashed, wsGhost>>

\* the order-book channel reports a sequence gap: the book is marked broken and
\* its resubscription (resubscribeOrderBook) is started
GapReported ==
    /\ ~crashed
    /\ dpc = "select"
    /\ conn = "up"
    /\ "book" \in handlersReg
    /\ chanIdMap["book"] \in srv
    /\ wsChannelMap[chanIdMap["book"]].key = "book"
    /\ wsGhost.bookDirty
    /\ wsGhost.gaps < MaxGaps
    /\ ~rebookWaiting
    /\ call.kind # "rebook"
    /\ rebookWaiting' = TRUE
    /\ wsGhost' = [wsGhost EXCEPT !.gaps = @ + 1, !.rebookAsked = TRUE]
    /\ UNCHANGED <<conn, wire, cmds, srv, funcRetCh, funcErrCh, chans, awaitingFuncRet,
                   channelsOpened, handlersReg, chanIdMap, wsChannelMap, dpc, dmsg, call,
                   resubWaiting, replay, stopping, crashed>>

----------------------------------------------------------------------------
(* The websocket driver: the read loop, the reconnection and the stop signal *)

\* what a message makes wsHandleMessage do: "data" is handled, "shape" fails a
\* test on its JSON shape, "collision" makes seqNoHandler.push panic
MsgKinds == {"data", "shape", "collision"}

\* the errors on errCh: "closure" is an unexpected close error of the transport,
\* "closed" the error of a read on a connection closed by the driver, "wrong"
\* the error of a shape test, "fatal" the error made of a recovered panic
ErrKinds == {"closure", "closed", "wrong", "fatal"}

InitReadVars ==
    /\ rdConn = 0
    /\ rdAlive = TRUE
    /\ rdWire = <<>>
    /\ rdReads = [ c \in 0..MaxDials |-> 0 ]
    /\ msgCh = <<>>
    /\ errCh = <<>>
    /\ rpc = "loop"
    /\ dialGood = FALSE
    /\ rdOpened = 1
    /\ stopCh = "idle"
    /\ rdGhost = [sent |-> 0, fails |-> 0, dials |-> 0, resubs |-> 0, violations |-> 0,
                  reconnects |-> 0, takenIn |-> "none", connAtStop |-> -1, resubsAtStop |-> -1]

\* sendErr: the channel after the send, which is skipped when channelsOpened is 0
sendErr(ch, opened, e) == IF opened # 0 THEN Append(ch, e) ELSE ch

\* sendErr can proceed: the channel has room, or nothing is sent
canSend(ch, opened) == opened = 0 \/ Len(ch) < 2

\* the error wsHandleMessage sends for a message that violates the protocol
violationErr(kind) == IF kind = "shape" THEN "wrong" ELSE "fatal"

\* the test of handleMessages on the error it took: an abnormal closing or not
isAbnormalClosing(e) == e = "closure"

\* reconnectWait answers true always
reconnectWaitBlind(sending) == TRUE

\* reconnectWait: false when the stop signal is there to take, true on the timer
reconnectWait(sending) == ~sending

\* the head of the loop of handleMessages: the goroutine that reads one message
\* from drv.conn is started
SpawnReader ==
    /\ rpc = "loop"
    /\ rdReads' = [rdReads EXCEPT ![rdConn] = @ + 1]
    /\ rpc' = "select"
    /\ UNCHANGED <<rdConn, rdAlive, rdWire, msgCh, errCh, dialGood, rdOpened, stopCh, rdGhost>>

\* a reader: conn.ReadMessage returns a message, which goes to msgCh
ReadMessage(c) ==
    /\ rdReads[c] > 0
    /\ c = rdConn /\ rdAlive
    /\ rdWire # <<>>
    /\ Len(msgCh) < 2
    /\ msgCh' = Append(msgCh, Head(rdWire))
    /\ rdWire' = Tail(rdWire)
    /\ rdReads' = [rdReads EXCEPT ![c] = @ - 1]
    /\ UNCHANGED <<rdConn, rdAlive, errCh, rpc, dialGood, rdOpened, stopCh, rdGhost>>

\* a reader: conn.ReadMessage returns an error, which goes to errCh; the error
\* is an unexpected close error unless the driver closed the connection itself
ReadError(c) ==
    /\ rdReads[c] > 0
    /\ c # rdConn \/ ~rdAlive
    /\ canSend(errCh, rdOpened)
    /\ errCh' = sendErr(errCh, rdOpened, IF c = rdConn /\ rpc \in {"loop", "select"} /\ stopCh # "closed"
                                         THEN "closure" ELSE "closed")
    /\ rdReads' = [rdReads EXCEPT ![c] = @ - 1]
    /\ UNCHANGED <<rdConn, rdAlive, rdWire, msgCh, rpc, dialGood, rdOpened, stopCh, rdGhost>>

\* case msg := <-msgCh, with wsHandleMessage: a message that violates the
\* protocol ends in sendErr(drv.errCh, ...), directly or out of the recover
SelectMsg ==
    /\ rpc = "select"
    /\ msgCh # <<>>
    /\ msgCh' = Tail(msgCh)
    /\ IF Head(msgCh) = "data"
       THEN UNCHANGED <<errCh, rdGhost>>
       ELSE /\ canSend(errCh, rdOpened)
            /\ errCh' = sendErr(errCh, rdOpened, violationErr(Head(msgCh)))
            /\ rdGhost' = [rdGhost EXCEPT !.violations = @ + 1]
    /\ rpc' = "loop"
    /\ UNCHANGED <<rdConn, rdAlive, rdWire, rdReads, dialGood, rdOpened, stopCh>>

\* case err := <-drv.errCh: reconnect() and the Close of the old connection in
\* tryReconnect on an abnormal closing, the error handler otherwise
SelectErr ==
    /\ rpc = "select"
    /\ errCh # <<>>
    /\ errCh' = Tail(errCh)
    /\ IF isAbnormalClosing(Head(errCh))
       THEN /\ rpc' = "dial"
            /\ rdAlive' = FALSE
            /\ rdWire' = <<>>
            /\ rdGhost' = [rdGhost EXCEPT !.reconnects = @ + 1]
       ELSE /\ rpc' = "loop"
            /\ UNCHANGED <<rdAlive, rdWire, rdGhost>>
    /\ dialGood' = FALSE
    /\ UNCHANGED <<rdConn, rdReads, msgCh, rdOpened, stopCh>>

takeStop(g, at) ==
    [g EXCEPT !.takenIn = at, !.connAtStop = rdConn, !.resubsAtStop = g.resubs]

\* case <-drv.stopCh of handleMessages
SelectStop ==
    /\ rpc = "select"
    /\ stopCh = "sending"
    /\ stopCh' = "taken"
    /\ rpc' = "done"
    /\ rdGhost' = takeStop(rdGhost, "select")
    /\ UNCHANGED <<rdConn, rdAlive, rdWire, rdReads, msgCh, errCh, dialGood, rdOpened>>

\* tryReconnect: dial() answers good, try again (no answer or 503) or hard failure
Dial(answer) ==
    /\ rpc = "dial"
    /\ rdGhost.dials < MaxDials
    /\ rdGhost' = [rdGhost EXCEPT !.dials = @ + 1]
    /\ IF answer = "good"
       THEN rdConn' = rdConn + 1 /\ rdAlive' = TRUE /\ dialGood' = TRUE /\ rpc' = "wait10"
       ELSE /\ UNCHANGED <<rdConn, rdAlive>>
            /\ dialGood' = FALSE
            /\ rpc' = IF answer = "again" THEN "wait10" ELSE "wait60"
    /\ UNCHANGED <<rdWire, rdReads, msgCh, errCh, rdOpened, stopCh>>

\* tryReconnect: reconnectWait, and what follows it
ReconnectWait ==
    /\ rpc \in {"wait10", "wait60"}
    /\ IF reconnectWait(stopCh = "sending")
       THEN /\ rpc' = IF dialGood THEN "init" ELSE "dial"
            /\ UNCHANGED <<stopCh, rdGhost>>
       ELSE /\ rpc' = "done"
            /\ stopCh' = "taken"
            /\ rdGhost' = takeStop(rdGhost, rpc)
    /\ UNCHANGED <<rdConn, rdAlive, rdWire, rdReads, msgCh, errCh, dialGood, rdOpened>>

\* tryReconnect: initMessageSafe; reconnect() starts resubscribeChannels when
\* tryReconnect answered true
InitMessage(good) ==
    /\ rpc = "init"
    /\ IF good
       THEN rpc' = "loop" /\ rdGhost' = [rdGhost EXCEPT !.resubs = @ + 1]
       ELSE rpc' = "dial" /\ UNCHANGED rdGhost
    /\ UNCHANGED <<rdConn, rdAlive, rdWire, rdReads, msgCh, errCh, dialGood, rdOpened, stopCh>>

\* stop() up to its send on stopCh
StopSignal ==
    /\ stopCh = "idle"
    /\ rdOpened' = 0
    /\ stopCh' = "sending"
    /\ UNCHANGED <<rdConn, rdAlive, rdWire, rdReads, msgCh, errCh, rpc, dialGood, rdGhost>>

\* stop() after its send was taken: the channels and the connection are closed
StopClose ==
    /\ stopCh = "taken"
    /\ stopCh' = "closed"
    /\ rdAlive' = FALSE
    /\ rdWire' = <<>>
    /\ UNCHANGED <<rdConn, rdReads, msgCh, errCh, rpc, dialGood, rdOpened, rdGhost>>

\* the server sends a message on the connection
ServerSend(kind) ==
    /\ rdAlive
    /\ rdGhost.sent < MaxMsgs
    /\ rdWire' = Append(rdWire, kind)
    /\ rdGhost' = [rdGhost EXCEPT !.sent = @ + 1]
    /\ UNCHANGED <<rdConn, rdAlive, rdReads, msgCh, errCh, rpc, dialGood, rdOpened, stopCh>>

\* the transport fails
TransportFails ==
    /\ rdAlive
    /\ stopCh \in {"idle", "sending"}
    /\ rdGhost.fails < MaxFails
    /\ rdAlive' = FALSE
    /\ rdWire' = <<>>
    /\ rdGhost' = [rdGhost EXCEPT !.fails = @ + 1]
    /\ UNCHANGED <<rdConn, rdReads, msgCh, errCh, rpc, dialGood, rdOpened, stopCh>>

----------------------------------------------------------------------------
(* The engine: activation windows and the start of the borrow task *)

\* the best ask rates of the published books; 0 is a book with an empty ask side
AskRates == {0, 1, 3}

\* no last order book
NoBook == -1

IdleChecker == [pc |-> "idle", ob |-> NoBook]

InitEngVars ==
    /\ epc = "sleep"
    /\ btDone = 0
    /\ checkOBEnabled = 0
    /\ taskTimer = "none"
    /\ lastOb = NoBook
    /\ checkers = [ i \in 1..NumCheckers |-> IdleChecker ]
    /\ engGhost = [win |-> 0, started |-> [ w \in 0..MaxWindows |-> 0 ], checks |-> 0,
                   timerTried |-> {}, bookTried |-> {}, outside |-> FALSE,
                   fired |-> {}, passed |-> {}, stop |-> "no", afterStop |-> FALSE]

\* a CAS that swaps whatever it finds
casBlind(v) == [ok |-> TRUE, val |-> 1]

\* atomic.CompareAndSwapUint32(&eng.btDone, 0, 1)
cas(v) == [ok |-> v = 0, val |-> IF v = 0 THEN 1 ELSE v]

\* go eng.makeBorrowTaskSafe(t), counted in the window that is current
startTask(g, ok) ==
    IF ok THEN [g EXCEPT !.started[g.win] = @ + 1] ELSE g

\* checkOrderBook: the ask rate jumped over the last one by more than
\* MinRateDiffInAskToForceBorrow (one half here)
forcesBorrow(last, ob) == last # NoBook /\ last # 0 /\ ob # 0 /\ 2 * last < ob

\* handleAutoLoanPeriod up to the reset of lastOb: the timers are created
PeriodBegin ==
    /\ epc = "sleep"
    /\ engGhost.win < MaxWindows
    /\ epc' = "reset"
    /\ taskTimer' = "set"
    /\ lastOb' = NoBook
    /\ UNCHANGED <<btDone, checkOBEnabled, checkers, engGhost>>

\* atomic.StoreUint32(&eng.btDone, 0): the window begins
PeriodReset ==
    /\ epc = "reset"
    /\ epc' = "enable"
    /\ btDone' = 0
    /\ engGhost' = [engGhost EXCEPT !.win = @ + 1]
    /\ UNCHANGED <<checkOBEnabled, taskTimer, lastOb, checkers>>

\* atomic.StoreUint32(&eng.checkOBEnabled, 1)
PeriodEnable ==
    /\ epc = "enable"
    /\ epc' = "window"
    /\ checkOBEnabled' = 1
    /\ UNCHANGED <<btDone, taskTimer, lastOb, checkers, engGhost>>

\* case t := <-taskTimer.C
TaskTimerFire ==
    /\ epc = "window"
    /\ taskTimer = "set"
    /\ taskTimer' = "fired"
    /\ btDone' = cas(btDone).val
    /\ engGhost' = [startTask(engGhost, cas(btDone).ok) EXCEPT !.timerTried = @ \cup {engGhost.win}]
    /\ UNCHANGED <<epc, checkOBEnabled, lastOb, checkers>>

\* case <-alEndTimer.C, with the deferred store of checkOBEnabled; mainRoutine
\* goes to the next period
PeriodEnd ==
    /\ epc = "window"
    /\ epc' = "sleep"
    /\ checkOBEnabled' = 0
    /\ taskTimer' = "none"
    /\ UNCHANGED <<btDone, lastOb, checkers, engGhost>>

\* Stop is called: the send on the unbuffered stopCh waits for its receiver
Stop ==
    /\ engGhost.stop = "no"
    /\ engGhost' = [engGhost EXCEPT !.stop = "called"]
    /\ UNCHANGED <<epc, btDone, checkOBEnabled, taskTimer, lastOb, checkers>>

\* case <-eng.stopCh, with the deferred store of checkOBEnabled; mainRoutine breaks
EngineStop ==
    /\ epc = "window"
    /\ engGhost.stop = "called"
    /\ epc' = "stopped"
    /\ checkOBEnabled' = 0
    /\ taskTimer' = "none"
    /\ engGhost' = [engGhost EXCEPT !.stop = "received"]
    /\ UNCHANGED <<btDone, lastOb, checkers>>

\* Stop after its send was taken: SetOrderBookHandler(nil) and the return
StopReturn ==
    /\ engGhost.stop = "received"
    /\ engGhost' = [engGhost EXCEPT !.stop = "returned"]
    /\ UNCHANGED <<epc, btDone, checkOBEnabled, taskTimer, lastOb, checkers>>

\* checkOrderBook(ob) is called: the load of checkOBEnabled
CheckBegin(i, ob) ==
    /\ checkers[i].pc = "idle"
    /\ engGhost.checks < MaxChecks
    /\ engGhost.stop # "returned"
    /\ engGhost' = [engGhost EXCEPT !.checks = @ + 1]
    /\ checkers' = IF checkOBEnabled = 0 THEN checkers
                   ELSE [checkers EXCEPT ![i] = [pc |-> "swap", ob |-> ob]]
    /\ UNCHANGED <<epc, btDone, checkOBEnabled, taskTimer, lastOb>>

\* checkOrderBook: the swap of lastOb under lastObMutex and the comparison
CheckSwap(i) ==
    /\ checkers[i].pc = "swap"
    /\ lastOb' = checkers[i].ob
    /\ checkers' = [checkers EXCEPT ![i] = IF forcesBorrow(lastOb, checkers[i].ob)
                                           THEN [pc |-> "cas", ob |-> checkers[i].ob]
                                           ELSE IdleChecker]
    /\ engGhost' = IF forcesBorrow(lastOb, checkers[i].ob)
                   THEN [engGhost EXCEPT !.fired = @ \cup {<<lastOb, checkers[i].ob>>}]
                   ELSE [engGhost EXCEPT !.passed = @ \cup {<<lastOb, checkers[i].ob>>}]
    /\ UNCHANGED <<epc, btDone, checkOBEnabled, taskTimer>>

\* checkOrderBook: the CAS on btDone and the start of the task
CheckFire(i) ==
    /\ checkers[i].pc = "cas"
    /\ btDone' = cas(btDone).val
    /\ engGhost' = [startTask(engGhost, cas(btDone).ok) EXCEPT
                        !.bookTried = @ \cup {engGhost.win},
                        !.outside = @ \/ (cas(btDone).ok /\ epc \in {"sleep", "stopped"}),
                        !.afterStop = @ \/ (cas(btDone).ok /\ engGhost.stop = "returned")]
    /\ checkers' = [checkers EXCEPT ![i] = IdleChecker]
    /\ UNCHANGED <<epc, checkOBEnabled, taskTimer, lastOb>>

----------------------------------------------------------------------------
(* The engine: the actions of a cycle under recover *)

CycleActions == {"close", "summary", "task"}

InitCycleVars ==
    /\ cpc = "sleep"
    /\ taskMutex = 0
    /\ tasks = [ i \in 1..MaxTasks |-> "none" ]
    /\ procDown = FALSE
    /\ cyGhost = [periods |-> 0, panicked |-> {}, logged |-> 0, sincePanic |-> 0]

\* a panic that nothing recovers ends the process
unrecovered(down, panics) == down \/ panics

\* defer func() { if x := recover(); x != nil { Logger.Error(...) } }(): the
\* panic stops at the wrapper and the process goes on
recovered(down, panics) == down

\* the history after an action that may have panicked under its wrapper
logPanic(g, what, panics) ==
    IF panics THEN [g EXCEPT !.panicked = @ \cup {what}, !.logged = @ + 1, !.sincePanic = 0]
    ELSE g

\* mainRoutine calls handleAutoLoanPeriod
CycleBegin ==
    /\ ~procDown
    /\ cpc = "sleep"
    /\ cyGhost.periods < MaxCycles
    /\ cpc' = "close"
    /\ cyGhost' = [cyGhost EXCEPT !.sincePanic = IF cyGhost.logged > 0 THEN @ + 1 ELSE @]
    /\ UNCHANGED <<taskMutex, tasks, procDown>>

\* eng.doCloseUnusedFundingsSafe()
CloseUnusedSafe(panics) ==
    /\ ~procDown
    /\ cpc = "close"
    /\ cpc' = "summary"
    /\ procDown' = recovered(procDown, panics)
    /\ cyGhost' = logPanic(cyGhost, "close", panics)
    /\ UNCHANGED <<taskMutex, tasks>>

\* eng.printCurrentFundingSummarySafe() and the rest up to the select
SummarySafe(panics) ==
    /\ ~procDown
    /\ cpc = "summary"
    /\ cpc' = "select"
    /\ procDown' = recovered(procDown, panics)
    /\ cyGhost' = logPanic(cyGhost, "summary", panics)
    /\ UNCHANGED <<taskMutex, tasks>>

\* go eng.makeBorrowTaskSafe(t), from the select or from checkOrderBook
TaskGo(i) ==
    /\ ~procDown
    /\ cpc = "select"
    /\ tasks[i] = "none"
    /\ tasks' = [tasks EXCEPT ![i] = "lock"]
    /\ UNCHANGED <<cpc, taskMutex, procDown, cyGhost>>

\* makeBorrowTask: eng.taskMutex.Lock()
TaskLock(i) ==
    /\ ~procDown
    /\ tasks[i] = "lock"
    /\ taskMutex = 0
    /\ taskMutex' = i
    /\ tasks' = [tasks EXCEPT ![i] = "run"]
    /\ UNCHANGED <<cpc, procDown, cyGhost>>

\* makeBorrowTask after the Lock: it returns or panics, the deferred Unlock
\* runs and makeBorrowTaskSafe recovers
TaskEnd(i, panics) ==
    /\ ~procDown
    /\ tasks[i] = "run"
    /\ taskMutex' = 0
    /\ tasks' = [tasks EXCEPT ![i] = "done"]
    /\ procDown' = recovered(procDown, panics)
    /\ cyGhost' = logPanic(cyGhost, "task", panics)
    /\ UNCHANGED cpc

\* case <-alEndTimer.C: handleAutoLoanPeriod returns true
CycleEnd ==
    /\ ~procDown
    /\ cpc = "select"
    /\ cpc' = "sleep"
    /\ cyGhost' = [cyGhost EXCEPT !.periods = @ + 1]
    /\ UNCHANGED <<taskMutex, tasks, procDown>>

----------------------------------------------------------------------------
(* The data fetcher: update() and the realtime handlers *)

\* 60*5 seconds
maxRtPeriodUpdate == 300

\* time.Second*10, in seconds
dfUpdaterPeriod == 10

Axes == {"price", "book", "trade"}

\* the axes with a realtime handler in the fetcher
RtAxes == {"price", "book"}

InitFetchVars ==
    /\ dfNow = 0
    /\ rtLastUpdate = 0
    /\ dfFetched = {}
    /\ dfGhost = [rt |-> [ a \in Axes |-> 0 ], rts |-> 0, updates |-> 0, stale |-> {}]

\* needUpdate of update(): one test on df.rtLastUpdate for the price and the book
needUpdate(t, last) == t - last >= maxRtPeriodUpdate

\* what update() fetches: the price and the book on needUpdate (Start() has
\* stored a value for each, so none is nil), the last trade always
fetchedBy(t, last) ==
    { a \in RtAxes : needUpdate(t, last) } \cup {"trade"}

\* the axes whose last realtime update is maxRtPeriodUpdate old or older
staleAxes(t, rt) == { a \in Axes : t - rt[a] >= maxRtPeriodUpdate }

\* marketPriceHandler, orderBookHandler: a realtime update of one axis
RtUpdate(a) ==
    /\ dfGhost.rts < MaxRtUpdates
    /\ rtLastUpdate' = dfNow
    /\ dfGhost' = [dfGhost EXCEPT !.rt[a] = dfNow, !.rts = @ + 1]
    /\ UNCHANGED <<dfNow, dfFetched>>

\* time passes up to the next tick of the updater, or for maxRtPeriodUpdate
TimePasses(d) ==
    /\ dfNow + d <= MaxClock
    /\ dfNow' = dfNow + d
    /\ UNCHANGED <<rtLastUpdate, dfFetched, dfGhost>>

\* update(), called by safeUpdate on a tick
Update ==
    /\ dfGhost.updates < MaxUpdates
    /\ dfFetched' = fetchedBy(dfNow, rtLastUpdate)
    /\ dfGhost' = [dfGhost EXCEPT !.updates = @ + 1, !.stale = staleAxes(dfNow, dfGhost.rt)]
    /\ UNCHANGED <<dfNow, rtLastUpdate>>

----------------------------------------------------------------------------
(* The borrow task: the decision (prepareBorrowTask) *)

\* 24*time.Hour, in the seconds in which the model counts time
Day == 86400

\* amounts are UDec64 with 8 decimals and rates UDec64 with 12 decimals, kept
\* as their integers; a float64 product of an amount and a rate is kept as the
\* exact product of the two integers and float64 ratios are compared exactly
EmptyTask == [TotalBorrow |-> 0, LoanIdsToClose |-> <<>>, Rate |-> 0]

\* the variables the obFill closure captures: obi, obFilled, obTotalAmount, taskRate
NewFill == [obi |-> 0, obFilled |-> 0, obTotalAmount |-> 0, taskRate |-> 0]

NoInput == [ob |-> <<>>, credits |-> <<>>, totalBorrow |-> -1, now |-> -1]

\* a/b <= c/d for a, c >= 0 and b, d > 0, by the continued fractions of the two
RECURSIVE RatLeq(_, _, _, _)
RatLeq(a, b, c, d) ==
    IF a \div b # c \div d THEN a \div b < c \div d
    ELSE IF a % b = 0 THEN TRUE
    ELSE IF c % d = 0 THEN FALSE
    ELSE RatLeq(d, c % d, b, a % b)

expireTime(credit) == credit.CreateTime + Day * credit.Period

truncate(now, d) == now - (now % d)

afterAutoLoanTime(now, cfg) ==
    IF truncate(now, cfg.AutoLoanFetchPeriod) + cfg.AutoLoanFetchShift < now
    THEN truncate(now, cfg.AutoLoanFetchPeriod) + cfg.AutoLoanFetchShift + cfg.AutoLoanFetchPeriod
    ELSE truncate(now, cfg.AutoLoanFetchPeriod) + cfg.AutoLoanFetchShift

isNormal(credit, now, cfg) == ~(afterAutoLoanTime(now, cfg) > expireTime(credit))

RECURSIVE classify(_, _, _, _)
classify(credits, now, cfg, want) ==
    IF credits = <<>> THEN <<>>
    ELSE IF isNormal(Head(credits), now, cfg) = want
         THEN <<Head(credits)>> \o classify(Tail(credits), now, cfg, want)
         ELSE classify(Tail(credits), now, cfg, want)

normCreditsOf(credits, now, cfg) == classify(credits, now, cfg, TRUE)

toExpireCreditsOf(credits, now, cfg) == classify(credits, now, cfg, FALSE)

\* sort.Sort on a slice of fewer than 12 elements is an insertion sort: an
\* element moves down past the elements whose rate is greater than its own
RECURSIVE insertCredit(_, _)
insertCredit(sorted, c) ==
    IF sorted = <<>> THEN <<c>>
    ELSE IF c.Rate < sorted[Len(sorted)].Rate
         THEN insertCredit(SubSeq(sorted, 1, Len(sorted) - 1), c) \o <<sorted[Len(sorted)]>>
         ELSE sorted \o <<c>>

RECURSIVE sortCredits(_)
sortCredits(cs) ==
    IF cs = <<>> THEN <<>>
    ELSE insertCredit(sortCredits(SubSeq(cs, 1, Len(cs) - 1)), cs[Len(cs)])

\* the end of obFill: the book ran out, or the next entry is taken in part
obFillRest(ask, st, csAmount, obAmountRate) ==
    IF st.obi = Len(ask) /\ csAmount # 0
    THEN [st |-> st, left |-> csAmount, obAmountRate |-> obAmountRate, ok |-> FALSE]
    ELSE IF st.obi # Len(ask) /\ csAmount # 0 /\ csAmount < ask[st.obi + 1].Amount - st.obFilled
    THEN [st |-> [obi |-> st.obi, obFilled |-> st.obFilled + csAmount,
                  obTotalAmount |-> st.obTotalAmount + csAmount,
                  taskRate |-> ask[st.obi + 1].Rate],
          left |-> 0, obAmountRate |-> obAmountRate + csAmount * ask[st.obi + 1].Rate,
          ok |-> TRUE]
    ELSE [st |-> st, left |-> csAmount, obAmountRate |-> obAmountRate, ok |-> TRUE]

\* the loop of obFill: the entries taken whole
RECURSIVE obFillWhole(_, _, _, _)
obFillWhole(ask, st, csAmount, obAmountRate) ==
    IF st.obi < Len(ask) /\ csAmount >= ask[st.obi + 1].Amount - st.obFilled
    THEN obFillWhole(ask,
            [obi |-> st.obi + 1, obFilled |-> 0,
             obTotalAmount |-> st.obTotalAmount + (ask[st.obi + 1].Amount - st.obFilled),
             taskRate |-> ask[st.obi + 1].Rate],
            csAmount - (ask[st.obi + 1].Amount - st.obFilled),
            obAmountRate + (ask[st.obi + 1].Amount - st.obFilled) * ask[st.obi + 1].Rate)
    ELSE obFillRest(ask, st, csAmount, obAmountRate)

obFill(ask, st, csAmount) == obFillWhole(ask, st, csAmount, 0)

\* lowObAmountRate of an amount taken from the start of the book, and what is left of it
RECURSIVE lowFill(_, _, _, _)
lowFill(ask, lowestObi, csAmountLeft, lowObAmountRate) ==
    IF lowestObi < Len(ask) /\ csAmountLeft >= ask[lowestObi + 1].Amount
    THEN lowFill(ask, lowestObi + 1, csAmountLeft - ask[lowestObi + 1].Amount,
                 lowObAmountRate + ask[lowestObi + 1].Amount * ask[lowestObi + 1].Rate)
    ELSE IF lowestObi # Len(ask) /\ csAmountLeft < ask[lowestObi + 1].Amount
    THEN [left |-> 0, sum |-> lowObAmountRate + csAmountLeft * ask[lowestObi + 1].Rate]
    ELSE [left |-> csAmountLeft, sum |-> lowObAmountRate]

\* hcsAmountRate of an amount taken from the credits of the highest rates; hcsi counts from 1
RECURSIVE hcsFill(_, _, _, _)
hcsFill(norm, hcsi, csAmountLeft, hcsAmountRate) ==
    IF hcsi >= 1 /\ csAmountLeft >= norm[hcsi].Amount
    THEN hcsFill(norm, hcsi - 1, csAmountLeft - norm[hcsi].Amount,
                 hcsAmountRate + norm[hcsi].Amount * norm[hcsi].Rate)
    ELSE IF hcsi >= 1 /\ csAmountLeft < norm[hcsi].Amount
    THEN hcsAmountRate + csAmountLeft * norm[hcsi].Rate
    ELSE hcsAmountRate

\* the credit is cheaper than the start of the book
lowBreak(ask, credit, low) == low.left = 0 /\ credit.Amount * credit.Rate < low.sum

\* obSumAmountRate/obTotalAmount <= (csSumAmountRate/csTotalAmount) * (1.0 - MinRateDifference)
averageAccepts(sums, obTotalAmount, cfg) ==
    /\ obTotalAmount > 0
    /\ sums.csTotalAmount > 0
    /\ RatLeq(sums.obSumAmountRate, obTotalAmount * (100 - cfg.MinRateDifference),
              sums.csSumAmountRate, sums.csTotalAmount * 100)

closeCredit(task, credit, taskRate) ==
    [TotalBorrow |-> task.TotalBorrow + credit.Amount,
     LoanIdsToClose |-> Append(task.LoanIdsToClose, credit.Id),
     Rate |-> taskRate]

addSums(sums, credit, obAmountRate) ==
    [obSumAmountRate |-> sums.obSumAmountRate + obAmountRate,
     csSumAmountRate |-> sums.csSumAmountRate + credit.Amount * credit.Rate,
     csTotalAmount |-> sums.csTotalAmount + credit.Amount]

RECURSIVE normLoop(_, _, _, _, _, _, _)

normDecide(ask, norm, csi, f, sums, task, cfg) ==
    IF averageAccepts(sums, f.st.obTotalAmount, cfg)
    THEN normLoop(ask, norm, csi - 1, f.st, sums, closeCredit(task, norm[csi], f.st.taskRate), cfg)
    ELSE [st |-> f.st, task |-> task]

normChecks(ask, norm, csi, f, sums, task, cfg) ==
    IF ~f.ok THEN [st |-> f.st, task |-> task]
    ELSE IF lowBreak(ask, norm[csi], lowFill(ask, 0, norm[csi].Amount, 0))
    THEN [st |-> f.st, task |-> task]
    ELSE IF hcsFill(norm, Len(norm), norm[csi].Amount, 0) < f.obAmountRate
    THEN [st |-> f.st, task |-> task]
    ELSE normDecide(ask, norm, csi, f, addSums(sums, norm[csi], f.obAmountRate), task, cfg)

\* the loop over the normal credits, from the highest rate down; csi counts from 1
normLoop(ask, norm, csi, st, sums, task, cfg) ==
    IF csi < 1 THEN [st |-> st, task |-> task]
    ELSE normChecks(ask, norm, csi, obFill(ask, st, norm[csi].Amount), sums, task, cfg)

\* a credit to expire handled as a displaced one
addExpiringAndClose(task, credit, taskRate) ==
    [TotalBorrow |-> task.TotalBorrow + credit.Amount,
     LoanIdsToClose |-> Append(task.LoanIdsToClose, credit.Id),
     Rate |-> taskRate]

addExpiring(task, credit, taskRate) ==
    [TotalBorrow |-> task.TotalBorrow + credit.Amount,
     LoanIdsToClose |-> task.LoanIdsToClose,
     Rate |-> taskRate]

RECURSIVE expireLoop(_, _, _, _)

expireFilled(ask, toExpire, i, f, task) ==
    IF ~f.ok THEN [st |-> f.st, task |-> task]
    ELSE expireLoop(ask, toExpire, i + 1,
                    [st |-> f.st, task |-> addExpiring(task, toExpire[i], f.st.taskRate)])

\* the loop over the credits to expire; i counts from 1
expireLoop(ask, toExpire, i, r) ==
    IF i > Len(toExpire) THEN r
    ELSE expireFilled(ask, toExpire, i, obFill(ask, r.st, toExpire[i].Amount), r.task)

restFilled(r, rest, f) ==
    [st |-> f.st,
     task |-> [TotalBorrow |-> r.task.TotalBorrow + (rest - f.left),
               LoanIdsToClose |-> r.task.LoanIdsToClose,
               Rate |-> f.st.taskRate]]

\* the rest of the total borrow, only if something else was filled
fillRest(ask, r, totalBorrow, totalCredits) ==
    IF r.task.TotalBorrow # 0 /\ totalBorrow > totalCredits
    THEN restFilled(r, totalBorrow - totalCredits, obFill(ask, r.st, totalBorrow - totalCredits))
    ELSE r

RECURSIVE sumAmounts(_)
sumAmounts(cs) == IF cs = <<>> THEN 0 ELSE Head(cs).Amount + sumAmounts(Tail(cs))

NoSums == [obSumAmountRate |-> 0, csSumAmountRate |-> 0, csTotalAmount |-> 0]

\* prepareBorrowTask with the state of the book walk at its end
buildTask(ask, credits, totalBorrow, now, cfg) ==
    IF Len(ask) = 0 \/ Len(credits) = 0 THEN [st |-> NewFill, task |-> EmptyTask]
    ELSE fillRest(ask,
            expireLoop(ask, toExpireCreditsOf(credits, now, cfg), 1,
                normLoop(ask, sortCredits(normCreditsOf(credits, now, cfg)),
                         Len(normCreditsOf(credits, now, cfg)), NewFill, NoSums, EmptyTask, cfg)),
            totalBorrow, sumAmounts(credits))

prepareBorrowTask(ask, credits, totalBorrow, now, cfg) ==
    buildTask(ask, credits, totalBorrow, now, cfg).task

----------------------------------------------------------------------------
(* The borrow task: the market sets, the total borrow and the execution *)

\* UDec64.Mul(b, precision, rounding) of two fixed-point numbers whose unit is one
Mul(a, b, one, rounding) == (a * b + (IF rounding THEN one \div 2 ELSE 0)) \div one

\* the exchange's market list seen by PrepareMarkets
Markets ==
    { [Name |-> "BTCUST", BaseCurrency |-> "BTC", QuoteCurrency |-> "UST"],
      [Name |-> "USTUSD", BaseCurrency |-> "UST", QuoteCurrency |-> "USD"],
      [Name |-> "BTCUSD", BaseCurrency |-> "BTC", QuoteCurrency |-> "USD"] }

\* the keys PrepareMarkets stores in baseCurrMarkets and in quoteCurrMarkets
baseKeys(markets, cfg) ==
    { cfg.Currency : m \in { x \in markets : cfg.Currency = x.BaseCurrency } }

quoteKeys(markets, cfg) ==
    { cfg.Currency : m \in { x \in markets : cfg.Currency # x.BaseCurrency
                                             /\ cfg.Currency = x.QuoteCurrency } }

\* Total of the first balance in the configured currency
RECURSIVE totalBalOf(_, _)
totalBalOf(bals, cfg) ==
    IF bals = <<>> THEN 0
    ELSE IF Head(bals).Currency = cfg.Currency THEN Head(bals).Total
    ELSE totalBalOf(Tail(bals), cfg)

\* what one position adds to posTotalVal; amounts and prices have one decimal
posValue(pos, baseM, quoteM) ==
    IF pos.Long
    THEN IF pos.Market \in quoteM THEN Mul(pos.Amount, pos.BasePrice, 10, TRUE) ELSE 0
    ELSE IF pos.Market \in baseM THEN pos.Amount ELSE 0

RECURSIVE posTotalValOf(_, _, _)
posTotalValOf(poss, baseM, quoteM) ==
    IF poss = <<>> THEN 0
    ELSE posValue(Head(poss), baseM, quoteM) + posTotalValOf(Tail(poss), baseM, quoteM)

clipBorrow(posTotalVal, totalBal) ==
    IF posTotalVal > totalBal THEN posTotalVal - totalBal ELSE 0

calculateTotalBorrow(poss, bals, cfg, baseM, quoteM) ==
    clipBorrow(posTotalValOf(poss, baseM, quoteM), totalBalOf(bals, cfg))

\* the credits not kept in alCreditsMap
RECURSIVE newCredits(_, _)
newCredits(credits, kept) ==
    IF credits = <<>> THEN <<>>
    ELSE IF Head(credits).Id \in { c.Id : c \in kept }
         THEN newCredits(Tail(credits), kept)
         ELSE <<Head(credits)>> \o newCredits(Tail(credits), kept)

\* the orders in which ranging over a map can yield its values
valueOrders(kept) ==
    { s \in [1..Cardinality(kept) -> kept] : \A i, j \in DOMAIN s : i # j => s[i] # s[j] }

\* doBorrowTask after GetActiveOrders: cancel the order that is still there, else close
afterQueryNoCancel(found) == "close"

afterQuery(found) == IF found THEN "cancel" ELSE "close"

\* closeFundings: the index is tested against multiples of 80
closeBatch == 80

Request(op, id, found, at) == [op |-> op, id |-> id, found |-> found, at |-> at]

closeCalls(log) == Len(SelectSeq(log, LAMBDA e : e.op = "CloseFunding"))

InitTask(cfgs, inputs) ==
    /\ config \in cfgs
    /\ baseCurrMarkets = {}
    /\ quoteCurrMarkets = {}
    /\ alCreditsMap = {}
    /\ tin \in inputs
    /\ bt = [st |-> NewFill, task |-> EmptyTask]
    /\ tpc = "new"
    /\ slept = 0
    /\ xlog = <<>>

\* getTestEngine0, times in seconds
TestConfig ==
    [Currency |-> "UST", AutoLoanFetchPeriod |-> 1200, AutoLoanFetchShift |-> 900,
     MinRateDifference |-> 20, MinOrderAmount |-> 150]

InitTaskVars == InitTask({TestConfig}, {NoInput})

PrepareMarkets ==
    /\ tpc = "new"
    /\ tin = NoInput
    /\ baseCurrMarkets' = baseCurrMarkets \cup baseKeys(Markets, config)
    /\ quoteCurrMarkets' = quoteCurrMarkets \cup quoteKeys(Markets, config)
    /\ tpc' = "idle"
    /\ UNCHANGED <<config, alCreditsMap, tin, bt, slept, xlog>>

\* handleAutoLoanPeriod keeps the credits held at the start of the window
KeepCredits(alCredits) ==
    /\ tpc = "idle"
    /\ alCreditsMap' = Range(alCredits)
    /\ tpc' = "window"
    /\ UNCHANGED <<config, baseCurrMarkets, quoteCurrMarkets, tin, bt, slept, xlog>>

\* the end of makeBorrowTask: nothing is done below the minimal order amount
taskDecided(in, r, usdPrice) ==
    /\ tin' = in
    /\ bt' = r
    /\ tpc' = IF Mul(r.task.TotalBorrow, usdPrice, 10, TRUE) < config.MinOrderAmount
              THEN "done" ELSE "bid"
    /\ UNCHANGED <<config, baseCurrMarkets, quoteCurrMarkets, alCreditsMap, slept, xlog>>

taskInput(ob, outCredits, totalBorrow, t, poss, bals) ==
    [ob |-> ob, credits |-> outCredits, totalBorrow |-> totalBorrow, now |-> t,
     poss |-> poss, bals |-> bals]

makeBorrowTask(in, usdPrice) ==
    taskDecided(in, buildTask(in.ob, in.credits, in.totalBorrow, in.now, config), usdPrice)

MakeBorrowTask(credits, bals, poss, ob, t, usdPrice) ==
    /\ tpc = "window"
    /\ \E kept \in valueOrders(alCreditsMap) :
          makeBorrowTask(taskInput(ob, kept \o newCredits(credits, alCreditsMap),
                             calculateTotalBorrow(poss, bals, config, baseCurrMarkets,
                                                  quoteCurrMarkets),
                             t, poss, bals), usdPrice)

SubmitBidOrder(success) ==
    /\ tpc = "bid"
    /\ xlog' = Append(xlog, Request("SubmitBidOrder", 0, FALSE, slept))
    /\ tpc' = IF success THEN "query" ELSE "done"
    /\ UNCHANGED <<config, baseCurrMarkets, quoteCurrMarkets, alCreditsMap, tin, bt, slept>>

GetActiveOrders(found) ==
    /\ tpc = "query"
    /\ slept' = slept + 2
    /\ xlog' = Append(xlog, Request("GetActiveOrders", 0, found, slept'))
    /\ tpc' = afterQuery(found)
    /\ UNCHANGED <<config, baseCurrMarkets, quoteCurrMarkets, alCreditsMap, tin, bt>>

\* the order found is cancelled; filled says whether the exchange had filled a part
\* of it by then (opr.Order of the answer, which the code does not read)
CancelOrder(filled) ==
    /\ tpc = "cancel"
    /\ slept' = slept + 10
    /\ xlog' = Append(xlog, Request("CancelOrder", 0, FALSE, slept') @@ [filled |-> filled])
    /\ tpc' = "close"
    /\ UNCHANGED <<config, baseCurrMarkets, quoteCurrMarkets, alCreditsMap, tin, bt>>

\* one round of the loop of closeFundings
CloseFunding(success) ==
    /\ tpc = "close"
    /\ closeCalls(xlog) < Len(bt.task.LoanIdsToClose)
    /\ xlog' = Append(xlog, Request("CloseFunding",
                                    bt.task.LoanIdsToClose[closeCalls(xlog) + 1], FALSE, slept))
    /\ slept' = IF success /\ closeCalls(xlog) # 0 /\ closeCalls(xlog) % closeBatch = 0
                THEN slept + 60 ELSE slept
    /\ tpc' = IF success THEN "close" ELSE "done"
    /\ UNCHANGED <<config, baseCurrMarkets, quoteCurrMarkets, alCreditsMap, tin, bt>>

CloseFundingsReturn ==
    /\ tpc = "close"
    /\ closeCalls(xlog) = Len(bt.task.LoanIdsToClose)
    /\ tpc' = "done"
    /\ UNCHANGED <<config, baseCurrMarkets, quoteCurrMarkets, alCreditsMap, tin, bt, slept, xlog>>

\* prepareBorrowTask applied to the inputs the state holds
PrepareBorrowTask ==
    /\ tpc = "new"
    /\ tin # NoInput
    /\ bt' = buildTask(tin.ob, tin.credits, tin.totalBorrow, tin.now, config)
    /\ tpc' = "prepared"
    /\ UNCHANGED <<config, baseCurrMarkets, quoteCurrMarkets, alCreditsMap, tin, slept, xlog>>

----------------------------------------------------------------------------
(* The engine: mainRoutine and the instants of the periods *)

\* AutoLoanFetchPeriod, AutoLoanFetchShift and AutoLoanFetchEndShift of the loop's
\* configuration, in the unit of the clock
LoopConfig == [AutoLoanFetchPeriod |-> 4, AutoLoanFetchShift |-> 1, AutoLoanFetchEndShift |-> 3]

\* alDur of handleAutoLoanPeriod
alDurOf(cfg) ==
    IF cfg.AutoLoanFetchEndShift - cfg.AutoLoanFetchShift < 0
    THEN cfg.AutoLoanFetchPeriod + (cfg.AutoLoanFetchEndShift - cfg.AutoLoanFetchShift)
    ELSE cfg.AutoLoanFetchEndShift - cfg.AutoLoanFetchShift

\* now.Truncate(AutoLoanFetchPeriod).Add(AutoLoanFetchShift)
anchor(now, cfg) == truncate(now, cfg.AutoLoanFetchPeriod) + cfg.AutoLoanFetchShift

later(a, b) == IF a > b THEN a ELSE b

InitLoop(starts) ==
    /\ clock \in starts
    /\ loopNow = 0
    /\ alPeriodTime = 0
    /\ lpc = "start"
    /\ ran = <<>>

InitLoopVars == InitLoop({0})

\* mainRoutine before its loop
MainStart ==
    /\ lpc = "start"
    /\ loopNow' = clock
    /\ alPeriodTime' = anchor(clock, LoopConfig)
    /\ lpc' = "loop"
    /\ UNCHANGED <<clock, ran>>

\* the head of the loop: sleep until alPeriodTime if it is after now, then enter the period
LoopSleep ==
    /\ lpc = "loop"
    /\ Len(ran) < MaxPeriods
    /\ clock' = IF alPeriodTime > loopNow THEN clock + (alPeriodTime - loopNow) ELSE clock
    /\ ran' = Append(ran, [start |-> alPeriodTime, chosenAt |-> loopNow])
    /\ lpc' = "period"
    /\ UNCHANGED <<loopNow, alPeriodTime>>

\* handleAutoLoanPeriod returns true when alEndTimer fires, late seconds after it could
LoopPeriodPassed(late) ==
    /\ lpc = "period"
    /\ clock' = later(clock, alPeriodTime + alDurOf(LoopConfig)) + late
    /\ alPeriodTime' = alPeriodTime + LoopConfig.AutoLoanFetchPeriod
    /\ loopNow' = clock'
    /\ lpc' = "loop"
    /\ UNCHANGED ran

\* handleAutoLoanPeriod returns false on the stop signal: mainRoutine breaks
LoopStopped(after) ==
    /\ lpc = "period"
    /\ clock' = clock + after
    /\ lpc' = "exited"
    /\ UNCHANGED <<loopNow, alPeriodTime, ran>>

----------------------------------------------------------------------------
(* SpecWS: the websocket driver with its callers, the server and the network *)

InitWS == InitSeqVars /\ InitBookVars /\ InitWSVars /\ InitEngVars /\ InitTaskVars /\ InitLoopVars /\ InitReadVars /\ InitCycleVars /\ InitFetchVars

\* the steps of the driver's goroutines and of the callers inside a call
DriverStep ==
    \/ ResubStart
    \/ RebookStart
    \/ CallSend
    \/ CallAwait
    \/ CallSelect
    \/ CallReturn
    \/ ReplayStep
    \/ DispatchEvent
    \/ DispatchError
    \/ DispatchData
    \/ DispatchAppend
    \/ ReconnectBegin
    \/ ReconnectEnd
    \/ StopFinish

NextWS ==
    \/ \E t \in ChannelTypes : UserSubscribe(t) /\ UNCHANGED <<seqVars, bookVars, engVars, taskVars, loopVars, readVars, cycleVars, fetchVars>>
    \/ \E t \in ChannelTypes : UserUnsubscribe(t) /\ UNCHANGED <<seqVars, bookVars, engVars, taskVars, loopVars, readVars, cycleVars, fetchVars>>
    \/ ResubStart /\ UNCHANGED <<seqVars, bookVars, engVars, taskVars, loopVars, readVars, cycleVars, fetchVars>>
    \/ RebookStart /\ UNCHANGED <<seqVars, bookVars, engVars, taskVars, loopVars, readVars, cycleVars, fetchVars>>
    \/ CallSend /\ UNCHANGED <<seqVars, bookVars, engVars, taskVars, loopVars, readVars, cycleVars, fetchVars>>
    \/ CallAwait /\ UNCHANGED <<seqVars, bookVars, engVars, taskVars, loopVars, readVars, cycleVars, fetchVars>>
    \/ CallSelect /\ UNCHANGED <<seqVars, bookVars, engVars, taskVars, loopVars, readVars, cycleVars, fetchVars>>
    \/ CallReturn /\ UNCHANGED <<seqVars, bookVars, engVars, taskVars, loopVars, readVars, cycleVars, fetchVars>>
    \/ ReplayStep /\ UNCHANGED <<seqVars, bookVars, engVars, taskVars, loopVars, readVars, cycleVars, fetchVars>>
    \/ DispatchEvent /\ UNCHANGED <<seqVars, bookVars, engVars, taskVars, loopVars, readVars, cycleVars, fetchVars>>
    \/ DispatchError /\ UNCHANGED <<seqVars, bookVars, engVars, taskVars, loopVars, readVars, cycleVars, fetchVars>>
    \/ DispatchData /\ UNCHANGED <<seqVars, bookVars, engVars, taskVars, loopVars, readVars, cycleVars, fetchVars>>
    \/ DispatchAppend /\ UNCHANGED <<seqVars, bookVars, engVars, taskVars, loopVars, readVars, cycleVars, fetchVars>>
    \/ ServerReply /\ UNCHANGED <<seqVars, bookVars, engVars, taskVars, loopVars, readVars, cycleVars, fetchVars>>
    \/ \E id \in 1..MaxCmds : ServerData(id) /\ UNCHANGED <<seqVars, bookVars, engVars, taskVars, loopVars, readVars, cycleVars, fetchVars>>
    \/ ConnLost /\ UNCHANGED <<seqVars, bookVars, engVars, taskVars, loopVars, readVars, cycleVars, fetchVars>>
    \/ ReconnectBegin /\ UNCHANGED <<seqVars, bookVars, engVars, taskVars, loopVars, readVars, cycleVars, fetchVars>>
    \/ ReconnectEnd /\ UNCHANGED <<seqVars, bookVars, engVars, taskVars, loopVars, readVars, cycleVars, fetchVars>>
    \/ StopBegin /\ UNCHANGED <<seqVars, bookVars, engVars, taskVars, loopVars, readVars, cycleVars, fetchVars>>
    \/ StopFinish /\ UNCHANGED <<seqVars, bookVars, engVars, taskVars, loopVars, readVars, cycleVars, fetchVars>>
    \/ GapReported /\ UNCHANGED <<seqVars, bookVars, engVars, taskVars, loopVars, readVars, cycleVars, fetchVars>>

SpecWS == InitWS /\ [][NextWS]_vars

\* every goroutine that can take a step eventually takes one, and the server
\* answers the commands it has received
SpecWSFair == SpecWS /\ WF_vars(DriverStep /\ UNCHANGED <<seqVars, bookVars, engVars, taskVars, loopVars, readVars, cycleVars, fetchVars>>)
                     /\ WF_vars(ServerReply /\ UNCHANGED <<seqVars, bookVars, engVars, taskVars, loopVars, readVars, cycleVars, fetchVars>>)

----------------------------------------------------------------------------
(* SpecDeliver: replies, errors and events of the server's own against the two
   channels of capacity 2 *)

deliverOthers == <<seqVars, bookVars, engVars, taskVars, loopVars, readVars, cycleVars, fetchVars>>

NextDeliver ==
    \/ \E t \in ChannelTypes : UserSubscribe(t) /\ UNCHANGED deliverOthers
    \/ CallSend /\ UNCHANGED deliverOthers
    \/ CallAwait /\ UNCHANGED deliverOthers
    \/ CallSelect /\ UNCHANGED deliverOthers
    \/ CallReturn /\ UNCHANGED deliverOthers
    \/ ServerReply /\ UNCHANGED deliverOthers
    \/ ServerInfo /\ UNCHANGED deliverOthers
    \/ DispatchEvent /\ UNCHANGED deliverOthers
    \/ DispatchError /\ UNCHANGED deliverOthers
    \/ DispatchStall /\ UNCHANGED deliverOthers
    \/ DeliverStalled /\ UNCHANGED deliverOthers
    \/ StopBegin /\ UNCHANGED deliverOthers
    \/ StopFinish /\ UNCHANGED deliverOthers

SpecDeliver == InitWS /\ [][NextDeliver]_vars

----------------------------------------------------------------------------
(* SpecBook: the maintainer under arbitrary snapshots, diffs and pool reuse *)

InitBook == InitSeqVars /\ InitBookVars /\ InitWSVars /\ InitEngVars /\ InitTaskVars /\ InitLoopVars /\ InitReadVars /\ InitCycleVars /\ InitFetchVars

seqGhosts == <<processed, firstPush, pushedSet, lastPush, pushCount, dupPush, farPush, lastRet>>

NextBook ==
    \/ \E seqNo \in 0..MaxSeq, ob \in SnapshotBooks, b \in PoolChoices :
          PushInitial(seqNo, ob, b) /\ UNCHANGED <<seqGhosts, wsVars, engVars, taskVars, loopVars, readVars, cycleVars, fetchVars>>
    \/ \E seqNo \in DiffSeqNos, diff \in DiffInputs, b \in PoolChoices :
          PushDiff(seqNo, diff, b) /\ UNCHANGED <<seqGhosts, wsVars, engVars, taskVars, loopVars, readVars, cycleVars, fetchVars>>
    \/ ClearBook /\ UNCHANGED <<seqGhosts, wsVars, engVars, taskVars, loopVars, readVars, cycleVars, fetchVars>>
    \/ \E h \in running : HandlerReturn(h) /\ UNCHANGED <<seqGhosts, wsVars, engVars, taskVars, loopVars, readVars, cycleVars, fetchVars>>

SpecBook == InitBook /\ [][NextBook]_vars

----------------------------------------------------------------------------
(* SpecFold: the maintainer with processed diffs held and no snapshot *)

\* the numbers of diffs pushed before the first snapshot
PendingCounts == {1, 2, seqNoElemsNum + 1}

HeldDiff == [Side |-> "Bid", Obe |-> Entry(2, 2, 2)]

\* pushDiff of the seqNos i..n with no snapshot held: each one is processed at
\* once and appended to the pendings
RECURSIVE heldAfter(_, _, _, _)
RECURSIVE heldNext(_, _, _, _)
heldAfter(h, pend, i, n) ==
    IF i > n THEN [nh |-> h, pendings |-> pend]
    ELSE heldNext(push(h, [seqNo |-> i, diff |-> HeldDiff]), pend, i, n)

heldNext(r, pend, i, n) == heldAfter(r.nh, pend \o r.out, i + 1, n)

InitFold ==
    /\ \E n \in PendingCounts :
          /\ nh = heldAfter(newSeqNoHandler, <<>>, 1, n).nh
          /\ pendings = heldAfter(newSeqNoHandler, <<>>, 1, n).pendings
    /\ processed = <<>> /\ firstPush = -1 /\ pushedSet = {} /\ lastPush = -1
    /\ pushCount = 0 /\ dupPush = FALSE /\ farPush = FALSE /\ lastRet = "none"
    /\ heap = [ a \in {InitialArr("Bid"), InitialArr("Ask")} |-> <<>> ]
    /\ toHandlePool = <<>>
    /\ initial = newInitial
    /\ initialSeqNo = 0
    /\ haveInitial = FALSE
    /\ running = {}
    /\ lastOut = <<>>
    /\ dfOrderBook = [op |-> 0, idx |-> 0]
    /\ bookOps = 0
    /\ bookPanic = FALSE
    /\ InitWSVars /\ InitEngVars /\ InitTaskVars /\ InitLoopVars /\ InitReadVars /\ InitCycleVars /\ InitFetchVars

foldOthers == <<seqGhosts, wsVars, engVars, taskVars, loopVars, readVars, cycleVars, fetchVars>>

NextFold ==
    \/ \E b \in PoolChoices : PushInitial(0, SmallBook, b) /\ UNCHANGED foldOthers
    \/ \E diff \in DiffInputs, b \in PoolChoices :
          PushDiff(nh.startSeqNo, diff, b) /\ UNCHANGED foldOthers
    \/ ClearBook /\ UNCHANGED foldOthers
    \/ \E h \in running : HandlerReturn(h) /\ UNCHANGED foldOthers

SpecFold == InitFold /\ [][NextFold]_vars

----------------------------------------------------------------------------
(* SpecSeq: the reorder buffer driven by arbitrary arrivals *)

SeqNoInputs ==
    (0..MaxNear) \cup ((seqNoElemsNum + 1)..(seqNoElemsNum + MaxFar))
        \cup {2 * seqNoElemsNum + MaxNear + 1}

SeqNosOf(es) == [ i \in 1..Len(es) |-> es[i].seqNo ]

InitSeq == InitSeqVars /\ InitBookVars /\ InitWSVars /\ InitEngVars /\ InitTaskVars /\ InitLoopVars /\ InitReadVars /\ InitCycleVars /\ InitFetchVars

Push(n) ==
    /\ pushCount < MaxPushes
    /\ LET r == push(nh, [seqNo |-> n, diff |-> NoDiff]) IN
        /\ nh' = r.nh
        /\ processed' = processed \o SeqNosOf(r.out)
        /\ lastRet' = IF r.panic THEN "panic" ELSE IF r.ret THEN "ok" ELSE "gap"
    /\ firstPush' = IF firstPush = -1 THEN n ELSE firstPush
    /\ pushedSet' = IF firstPush = -1 THEN pushedSet ELSE pushedSet \cup {n}
    /\ lastPush' = n
    /\ pushCount' = pushCount + 1
    /\ dupPush' = (dupPush \/ n = firstPush \/ n \in pushedSet)
    /\ farPush' = (farPush \/ (nh.haveSeqNo /\ n - nh.startSeqNo >= seqNoElemsNum))

Clear ==
    /\ pushCount > 0
    /\ nh' = clear(nh)
    /\ processed' = <<>>
    /\ firstPush' = -1
    /\ pushedSet' = {}
    /\ lastPush' = -1
    /\ pushCount' = 0
    /\ dupPush' = FALSE
    /\ farPush' = FALSE
    /\ lastRet' = "none"

NextSeq ==
    \/ \E n \in SeqNoInputs : Push(n) /\ UNCHANGED <<bookVars, wsVars, engVars, taskVars, loopVars, readVars, cycleVars, fetchVars>>
    \/ Clear /\ UNCHANGED <<bookVars, wsVars, engVars, taskVars, loopVars, readVars, cycleVars, fetchVars>>

SpecSeq == InitSeq /\ [][NextSeq]_vars

----------------------------------------------------------------------------
(* SpecEng: the period loop of the engine against concurrent order-book checks *)

InitEng == InitSeqVars /\ InitBookVars /\ InitWSVars /\ InitEngVars /\ InitTaskVars /\ InitLoopVars /\ InitReadVars /\ InitCycleVars /\ InitFetchVars

NextEng ==
    \/ PeriodBegin /\ UNCHANGED <<seqVars, bookVars, wsVars, taskVars, loopVars, readVars, cycleVars, fetchVars>>
    \/ PeriodReset /\ UNCHANGED <<seqVars, bookVars, wsVars, taskVars, loopVars, readVars, cycleVars, fetchVars>>
    \/ PeriodEnable /\ UNCHANGED <<seqVars, bookVars, wsVars, taskVars, loopVars, readVars, cycleVars, fetchVars>>
    \/ TaskTimerFire /\ UNCHANGED <<seqVars, bookVars, wsVars, taskVars, loopVars, readVars, cycleVars, fetchVars>>
    \/ PeriodEnd /\ UNCHANGED <<seqVars, bookVars, wsVars, taskVars, loopVars, readVars, cycleVars, fetchVars>>
    \/ EngineStop /\ UNCHANGED <<seqVars, bookVars, wsVars, taskVars, loopVars, readVars, cycleVars, fetchVars>>
    \/ Stop /\ UNCHANGED <<seqVars, bookVars, wsVars, taskVars, loopVars, readVars, cycleVars, fetchVars>>
    \/ StopReturn /\ UNCHANGED <<seqVars, bookVars, wsVars, taskVars, loopVars, readVars, cycleVars, fetchVars>>
    \/ \E i \in 1..NumCheckers, ob \in AskRates :
          CheckBegin(i, ob) /\ UNCHANGED <<seqVars, bookVars, wsVars, taskVars, loopVars, readVars, cycleVars, fetchVars>>
    \/ \E i \in 1..NumCheckers : CheckSwap(i) /\ UNCHANGED <<seqVars, bookVars, wsVars, taskVars, loopVars, readVars, cycleVars, fetchVars>>
    \/ \E i \in 1..NumCheckers : CheckFire(i) /\ UNCHANGED <<seqVars, bookVars, wsVars, taskVars, loopVars, readVars, cycleVars, fetchVars>>

SpecEng == InitEng /\ [][NextEng]_vars

----------------------------------------------------------------------------
(* SpecDec: prepareBorrowTask applied to bounded credits, books, totals and times *)

MaxCredits == 2
MaxAsk == 2

Amounts == {1, 2}

Rates == {1, 2, 3}

\* a credit of one day made at 1 expires at Day + 1 and one made at 5 at Day + 5
CreateTimes == {1, 5}

\* at Day the next tick is Day + 1; at Day + 2 that instant has passed and it is Day + 5
NowTimes == {Day, Day + 2}

TotalBorrows == {0, 3, 7}

seqsUpTo(S, n) == UNION { [1..k -> S] : k \in 0..n }

CreditShapes == [Amount : Amounts, Rate : Rates, CreateTime : CreateTimes, Period : {1}]

withIds(s) ==
    [ i \in 1..Len(s) |-> [Id |-> i, Amount |-> s[i].Amount, Rate |-> s[i].Rate,
                           CreateTime |-> s[i].CreateTime, Period |-> s[i].Period] ]

CreditLists == { withIds(s) : s \in seqsUpTo(CreditShapes, MaxCredits) }

\* the ask side as the maintainer publishes it: rates ascending
AskBooks ==
    { s \in seqsUpTo([Amount : Amounts, Rate : Rates], MaxAsk) :
        \A i \in 1..(Len(s) - 1) : s[i].Rate < s[i + 1].Rate }

DecConfigs ==
    { [Currency |-> "UST", AutoLoanFetchPeriod |-> 4, AutoLoanFetchShift |-> 1,
       MinRateDifference |-> m, MinOrderAmount |-> 0] : m \in {0, 20} }

DecInputs ==
    { [ob |-> ob, credits |-> cs, totalBorrow |-> tb, now |-> t] :
        ob \in AskBooks, cs \in CreditLists, tb \in TotalBorrows, t \in NowTimes }

\* the first case of TestPrepareBorrowTask; amounts and rates in 10^6 of their
\* integers, times in seconds with now = 2021-09-14 15:37:11 taken as 2 days + 15:37:11
S2Now == 229031

S2Credit(id, age, amount, rate) ==
    [Id |-> id, Amount |-> amount, Rate |-> rate, CreateTime |-> S2Now - age, Period |-> 2]

S2Input ==
    [ob |-> << [Amount |-> 16000, Rate |-> 4111], [Amount |-> 20200, Rate |-> 4112],
               [Amount |-> 134177, Rate |-> 4115], [Amount |-> 53400, Rate |-> 4118],
               [Amount |-> 78800, Rate |-> 4125] >>,
     credits |-> << S2Credit(100, 86400, 32455, 7321), S2Credit(101, 82800, 2441355, 6663),
                    S2Credit(102, 79200, 141355, 8934) >>,
     totalBorrow |-> 2615165,
     now |-> S2Now]

S2Task == [TotalBorrow |-> 173810, LoanIdsToClose |-> <<102, 100>>, Rate |-> 4125]

InitDec ==
    /\ InitSeqVars /\ InitBookVars /\ InitWSVars /\ InitEngVars /\ InitLoopVars /\ InitReadVars /\ InitCycleVars /\ InitFetchVars
    /\ \/ InitTask(DecConfigs, DecInputs)
       \/ InitTask({TestConfig}, {S2Input})

NextDec ==
    \/ PrepareBorrowTask /\ UNCHANGED <<seqVars, bookVars, wsVars, engVars, loopVars, readVars, cycleVars, fetchVars>>

SpecDec == InitDec /\ [][NextDec]_vars

----------------------------------------------------------------------------
(* SpecExec: a window's borrow task from the market sets to the closed loans *)

\* the credits the exchange reports: GetCredits at the start of the window and in the task
HeldCredits ==
    { cs \in CreditLists : \A i \in 1..Len(cs) :
        cs[i].Amount = 1 /\ cs[i].Rate = 3 /\ cs[i].CreateTime = 5 }

Position(market, amount, price, long) ==
    [Market |-> market, Amount |-> amount, BasePrice |-> price, Long |-> long]

\* GetPositions and GetMarginBalances; amounts and prices have one decimal
Accounts ==
    { [poss |-> <<>>, bals |-> <<>>],
      [poss |-> << Position("BTCUST", 20, 30, TRUE) >>,
       bals |-> << [Currency |-> "USD", Total |-> 90], [Currency |-> "UST", Total |-> 10] >>],
      [poss |-> << Position("BTCUSD", 20, 30, TRUE), Position("USTUSD", 40, 10, FALSE) >>,
       bals |-> << [Currency |-> "UST", Total |-> 10] >>],
      [poss |-> << Position("BTCUST", 20, 30, FALSE), Position("USTUSD", 40, 10, TRUE) >>,
       bals |-> <<>>] }

UsdPrices == {10}

ExecConfigs ==
    { [Currency |-> "UST", AutoLoanFetchPeriod |-> 4, AutoLoanFetchShift |-> 1,
       MinRateDifference |-> 0, MinOrderAmount |-> m] : m \in {0, 2} }

InitExec ==
    /\ InitSeqVars /\ InitBookVars /\ InitWSVars /\ InitEngVars /\ InitLoopVars /\ InitReadVars /\ InitCycleVars /\ InitFetchVars
    /\ InitTask(ExecConfigs, {NoInput})

NextExec ==
    \/ PrepareMarkets /\ UNCHANGED <<seqVars, bookVars, wsVars, engVars, loopVars, readVars, cycleVars, fetchVars>>
    \/ \E cs \in HeldCredits : KeepCredits(cs) /\ UNCHANGED <<seqVars, bookVars, wsVars, engVars, loopVars, readVars, cycleVars, fetchVars>>
    \/ \E cs \in HeldCredits, acc \in Accounts, ob \in AskBooks, usd \in UsdPrices :
          MakeBorrowTask(cs, acc.bals, acc.poss, ob, Day, usd)
              /\ UNCHANGED <<seqVars, bookVars, wsVars, engVars, loopVars, readVars, cycleVars, fetchVars>>
    \/ \E success \in BOOLEAN : SubmitBidOrder(success)
                                    /\ UNCHANGED <<seqVars, bookVars, wsVars, engVars, loopVars, readVars, cycleVars, fetchVars>>
    \/ \E found \in BOOLEAN : GetActiveOrders(found)
                                    /\ UNCHANGED <<seqVars, bookVars, wsVars, engVars, loopVars, readVars, cycleVars, fetchVars>>
    \/ \E filled \in BOOLEAN : CancelOrder(filled)
                                    /\ UNCHANGED <<seqVars, bookVars, wsVars, engVars, loopVars, readVars, cycleVars, fetchVars>>
    \/ \E success \in BOOLEAN : CloseFunding(success)
                                    /\ UNCHANGED <<seqVars, bookVars, wsVars, engVars, loopVars, readVars, cycleVars, fetchVars>>
    \/ CloseFundingsReturn /\ UNCHANGED <<seqVars, bookVars, wsVars, engVars, loopVars, readVars, cycleVars, fetchVars>>

SpecExec == InitExec /\ [][NextExec]_vars

----------------------------------------------------------------------------
(* SpecLoop: mainRoutine from every start instant, with periods that end late *)

StartTimes == 0..(2 * LoopConfig.AutoLoanFetchPeriod - 1)

Delays == {0, 1, 5}

InitLoopSpec ==
    /\ InitSeqVars /\ InitBookVars /\ InitWSVars /\ InitEngVars /\ InitTaskVars
    /\ InitLoop(StartTimes) /\ InitReadVars /\ InitCycleVars /\ InitFetchVars

NextLoop ==
    \/ MainStart /\ UNCHANGED <<seqVars, bookVars, wsVars, engVars, taskVars, readVars, cycleVars, fetchVars>>
    \/ LoopSleep /\ UNCHANGED <<seqVars, bookVars, wsVars, engVars, taskVars, readVars, cycleVars, fetchVars>>
    \/ \E late \in Delays : LoopPeriodPassed(late)
                                /\ UNCHANGED <<seqVars, bookVars, wsVars, engVars, taskVars, readVars, cycleVars, fetchVars>>
    \/ \E after \in Delays : LoopStopped(after)
                                /\ UNCHANGED <<seqVars, bookVars, wsVars, engVars, taskVars, readVars, cycleVars, fetchVars>>

SpecLoop == InitLoopSpec /\ [][NextLoop]_vars

----------------------------------------------------------------------------
(* SpecRead: the read loop against the server, failures of the transport and stop() *)

DialAnswers == {"good", "again", "hard"}

otherVars == <<seqVars, bookVars, wsVars, engVars, taskVars, loopVars, cycleVars, fetchVars>>

InitRead ==
    /\ InitSeqVars /\ InitBookVars /\ InitWSVars /\ InitEngVars /\ InitTaskVars /\ InitLoopVars
    /\ InitReadVars /\ InitCycleVars /\ InitFetchVars

NextRead ==
    \/ SpawnReader /\ UNCHANGED otherVars
    \/ \E c \in 0..MaxDials : ReadMessage(c) /\ UNCHANGED otherVars
    \/ \E c \in 0..MaxDials : ReadError(c) /\ UNCHANGED otherVars
    \/ SelectMsg /\ UNCHANGED otherVars
    \/ SelectErr /\ UNCHANGED otherVars
    \/ SelectStop /\ UNCHANGED otherVars
    \/ \E answer \in DialAnswers : Dial(answer) /\ UNCHANGED otherVars
    \/ ReconnectWait /\ UNCHANGED otherVars
    \/ \E good \in BOOLEAN : InitMessage(good) /\ UNCHANGED otherVars
    \/ StopSignal /\ UNCHANGED otherVars
    \/ StopClose /\ UNCHANGED otherVars
    \/ \E kind \in MsgKinds : ServerSend(kind) /\ UNCHANGED otherVars
    \/ TransportFails /\ UNCHANGED otherVars

SpecRead == InitRead /\ [][NextRead]_vars

----------------------------------------------------------------------------
(* SpecCycle: the cycles of the engine with actions that panic *)

cycleOthers == <<seqVars, bookVars, wsVars, engVars, taskVars, loopVars, readVars, fetchVars>>

InitCycle ==
    /\ InitSeqVars /\ InitBookVars /\ InitWSVars /\ InitEngVars /\ InitTaskVars /\ InitLoopVars
    /\ InitReadVars /\ InitCycleVars /\ InitFetchVars

NextCycle ==
    \/ CycleBegin /\ UNCHANGED cycleOthers
    \/ \E panics \in BOOLEAN : CloseUnusedSafe(panics) /\ UNCHANGED cycleOthers
    \/ \E panics \in BOOLEAN : SummarySafe(panics) /\ UNCHANGED cycleOthers
    \/ \E i \in 1..MaxTasks : TaskGo(i) /\ UNCHANGED cycleOthers
    \/ \E i \in 1..MaxTasks : TaskLock(i) /\ UNCHANGED cycleOthers
    \/ \E i \in 1..MaxTasks, panics \in BOOLEAN : TaskEnd(i, panics) /\ UNCHANGED cycleOthers
    \/ CycleEnd /\ UNCHANGED cycleOthers

SpecCycle == InitCycle /\ [][NextCycle]_vars

----------------------------------------------------------------------------
(* SpecClose: closeFundings on long lists of loans *)

LoanCounts == {1, closeBatch, MaxLoans}

\* closeFundings(fundings) is entered with n loans to close
InitClose ==
    /\ InitSeqVars /\ InitBookVars /\ InitWSVars /\ InitEngVars /\ InitLoopVars
    /\ InitReadVars /\ InitCycleVars /\ InitFetchVars
    /\ config = TestConfig
    /\ baseCurrMarkets = {} /\ quoteCurrMarkets = {} /\ alCreditsMap = {}
    /\ tin = NoInput
    /\ \E n \in LoanCounts :
          bt = [st |-> NewFill, task |-> [TotalBorrow |-> n, LoanIdsToClose |-> [ i \in 1..n |-> i ], Rate |-> 1]]
    /\ tpc = "close"
    /\ slept = 0
    /\ xlog = <<>>

closeOthers == <<seqVars, bookVars, wsVars, engVars, loopVars, readVars, cycleVars, fetchVars>>

NextClose ==
    \/ \E success \in BOOLEAN : CloseFunding(success) /\ UNCHANGED closeOthers
    \/ CloseFundingsReturn /\ UNCHANGED closeOthers

SpecClose == InitClose /\ [][NextClose]_vars

----------------------------------------------------------------------------
(* SpecFetch: the updater of the data fetcher beside the realtime handlers *)

fetchOthers == <<seqVars, bookVars, wsVars, engVars, taskVars, loopVars, readVars, cycleVars>>

InitFetch ==
    /\ InitSeqVars /\ InitBookVars /\ InitWSVars /\ InitEngVars /\ InitTaskVars /\ InitLoopVars
    /\ InitReadVars /\ InitCycleVars /\ InitFetchVars

NextFetch ==
    \/ \E a \in RtAxes : RtUpdate(a) /\ UNCHANGED fetchOthers
    \/ \E d \in {dfUpdaterPeriod, maxRtPeriodUpdate} : TimePasses(d) /\ UNCHANGED fetchOthers
    \/ Update /\ UNCHANGED fetchOthers

SpecFetch == InitFetch /\ [][NextFetch]_vars

----------------------------------------------------------------------------
(* Claims about the reorder buffer *)

\* C1: between two clears, whatever the arrival order, the seqNos on which
\* process() is invoked form a strictly increasing sequence: none is processed
\* twice and none after a higher one.
C1_ProcessedStrictlyIncreasing == StrictlyIncreasing(processed)

\* a forced gap, a duplicate arrival and a drained backlog in one epoch
C1_Witness ==
    /\ farPush
    /\ dupPush
    /\ Len(processed) >= 4
    /\ lastPush < processed[Len(processed)]

\* C2: once the next expected seqNo is E, if exactly the seqNos E..m have been
\* pushed, each once, in any order and none seqNoElemsNum or more ahead of the
\* next expected one, then process() has run exactly once on each of E..m in
\* ascending order (after the push that established E).
C2_InOrderDelivery ==
    (/\ firstPush # -1
     /\ ~dupPush
     /\ ~farPush
     /\ pushedSet = (firstPush + 1)..(firstPush + Cardinality(pushedSet)))
        => processed = <<firstPush>> \o Interval(firstPush + 1, firstPush + Cardinality(pushedSet))

\* E = 1 and the seqNos 1..5 all pushed once with 1 arriving last
C2_Witness ==
    /\ firstPush = 0
    /\ ~dupPush
    /\ ~farPush
    /\ pushedSet = 1..5
    /\ lastPush = 1
    /\ processed = <<0, 1, 2, 3, 4, 5>>

----------------------------------------------------------------------------
(* Claims about the websocket driver *)

\* a command the model could not send only because the command numbers ran out
OutOfCommands == wsGhost.nextCmd > MaxCmds

\* C6: while the driver is not being stopped, a subscribe call that no
\* disconnection cuts off returns the channel id the server assigned to the
\* subscription made by that very command, or fails with the server's error
\* event for that command.
C6_SubscribeReturnsAssignedId ==
    (wsGhost.outcome.op = "sub" /\ ~wsGhost.outcome.interrupted /\ ~stopping) =>
        IF wsGhost.outcome.ok
        THEN wsGhost.outcome.val = wsGhost.outcome.cmd /\ wsGhost.outcome.cmd \in wsGhost.accepted
        ELSE wsGhost.outcome.err = "server" /\ wsGhost.outcome.cmd \in wsGhost.refused

\* C7: a call that has sent its command and is cut off by a disconnection or a
\* stop, at whatever point of the call, is eventually unblocked: it gets an
\* error, or the reply that the server did send for its command.
C7_CutOffCallUnblocked ==
    (call.interrupted /\ call.pc \in {"sent", "waiting", "blocked"})
        ~> (call.pc = "got" /\ (~call.ok \/ call.val = call.cmd))

\* the messages queued in the entries that are not bound yet
QueuedFirsts ==
    UNION { Range(wsChannelMap[i].firstMsgs) :
                i \in { j \in 0..MaxCmds : wsChannelMap[j].present /\ wsChannelMap[j].key = "" } }

\* C8: a channel message received before its channel id was bound is queued
\* and then replayed to the handler; while the channel stays subscribed none
\* is lost: each is handled, still queued, or on its way to the handler.
C8_FirstMessagesNotLost ==
    \A m \in wsGhost.received \ wsGhost.handled :
        m.chanId \in srv =>
            \/ m \in QueuedFirsts
            \/ m \in Range(replay)
            \/ dpc = "append" /\ dmsg = m

\* every type subscribed before the disconnection is subscribed on the new
\* connection and bound to its channel id
Resubscribed ==
    \A t \in wsGhost.needResub \cap handlersReg :
        /\ chanIdMap[t] \in srv
        /\ wsChannelMap[chanIdMap[t]].key = t

\* C9: after a disconnection and a successful redial every type subscribed
\* before is eventually subscribed again (unless the driver is stopped or the
\* server refuses a command), and the order book is cleared when its
\* resubscription is sent.
C9_ResubscribedAfterReconnect ==
    /\ [](call.kind = "resub" /\ call.typ = "book" /\ call.pc = "send" => wsGhost.bookCleared)
    /\ (wsGhost.needResub # {})
           ~> (Resubscribed \/ stopping \/ wsGhost.refused # {} \/ OutOfCommands)

\* C3: after a gap the resubscription of the book is requested and a fresh
\* subscription of the book is eventually made (unless the driver is stopped,
\* the book is unsubscribed or the server refuses a command); the process
\* does not crash.
C3_GapLeadsToFreshSubscription ==
    wsGhost.rebookAsked
        ~> (\/ ~wsGhost.rebookAsked /\ ~crashed
            \/ stopping
            \/ "book" \notin handlersReg
            \/ wsGhost.refused # {}
            \/ OutOfCommands)

----------------------------------------------------------------------------
(* Claims about the order-book maintainer *)

Descending(side) == \A i \in 1..(Len(side) - 1) : side[i].Rate > side[i + 1].Rate

Ascending(side) == \A i \in 1..(Len(side) - 1) : side[i].Rate < side[i + 1].Rate

WellFormed(book) ==
    /\ Descending(book.Bid)
    /\ Ascending(book.Ask)
    /\ Len(book.Bid) <= maxDepth
    /\ Len(book.Ask) <= maxDepth

\* C4: starting from well-formed snapshots, every book that a fold of diffs
\* produces (buffers from the pool reused or not), and the snapshot the
\* maintainer keeps, is well-formed: bid strictly descending, ask strictly
\* ascending, each side at most maxDepth long.
C4_BooksWellFormed ==
    /\ \A k \in 1..Len(lastOut) : WellFormed(lastOut[k])
    /\ haveInitial => WellFormed(Deref(heap, initial))

\* C5: a book handed to a subscriber handler keeps the value it had when it
\* was handed over for as long as the handler runs.
C5_PublishedBookUnchanged ==
    \A h \in running : Deref(heap, toHandlePool[h.buf][h.idx]) = h.book

----------------------------------------------------------------------------
(* Claims about the engine *)

\* C10: in each activation window (from the reset of btDone to the next one)
\* the borrow task is started at most once, however the task timer and the
\* order-book checks interleave.
C10_TaskStartedAtMostOncePerWindow ==
    \A w \in 0..MaxWindows : engGhost.started[w] <= 1

\* a window in which both the task timer and an order-book check tried to
\* start the task, and the task was started
C10_Witness ==
    \E w \in 1..MaxWindows :
        /\ w \in engGhost.timerTried
        /\ w \in engGhost.bookTried
        /\ engGhost.started[w] = 1

\* C11: a borrow task is started only inside an activation window: never
\* while the period loop sleeps before T_start, and never after the end timer
\* was taken and checkOBEnabled was reset.
C11_StartedOnlyInsideWindow == ~engGhost.outside

\* a rate pair is a fall of the top ask below the last seen one by more than
\* MinRateDiffInAskToForceBorrow (one half here)
AskFell(last, ob) == last # NoBook /\ last # 0 /\ ob # 0 /\ 2 * ob < last

\* C20: during a window an order-book update goes for the early start of the
\* task exactly when its top ask rate is below the last seen top ask rate
\* times (1 - minRateDiffInAskToForceBorrow).
C20_EarlyStartWhenAskFell ==
    /\ \A p \in engGhost.fired : AskFell(p[1], p[2])
    /\ \A p \in engGhost.passed : ~AskFell(p[1], p[2])

\* C30: when Stop is called while the control loop is running, Stop returns and the control loop exits: the current window is abandoned, no further period is handled, and no borrow task is started after Stop has returned.
C30_NoTaskAfterStopReturned ==
    /\ engGhost.stop \in {"received", "returned"} => epc = "stopped" /\ checkOBEnabled = 0
    /\ ~engGhost.afterStop

----------------------------------------------------------------------------
(* The decision *)

\* the credits of the input that prepareBorrowTask classified normal
normalIds == { c.Id : c \in Range(normCreditsOf(tin.credits, tin.now, config)) }

toExpireIds == { c.Id : c \in Range(toExpireCreditsOf(tin.credits, tin.now, config)) }

closedIds == Range(bt.task.LoanIdsToClose)

\* C13: in every produced task loanIdsToClose holds only ids of credits classified normal; a toExpire credit adds its amount to totalBorrow and its id is never in loanIdsToClose.
C13_OnlyNormalCreditsClosed ==
    tpc = "prepared" =>
        /\ closedIds \subseteq normalIds
        /\ closedIds \cap toExpireIds = {}
        /\ bt.task.TotalBorrow >= sumAmounts(SelectSeq(tin.credits, LAMBDA c : c.Id \in closedIds))

C13_Witness ==
    /\ tpc = "prepared"
    /\ closedIds # {}
    /\ toExpireIds # {}
    /\ tin.totalBorrow = 0
    /\ bt.task.TotalBorrow > sumAmounts(SelectSeq(tin.credits, LAMBDA c : c.Id \in closedIds))

\* the next auto-loan tick: truncate(now, autoLoanFetchPeriod) + autoLoanFetchShift,
\* one period later if that instant is in the past
nextTick ==
    IF (tin.now - (tin.now % config.AutoLoanFetchPeriod)) + config.AutoLoanFetchShift < tin.now
    THEN (tin.now - (tin.now % config.AutoLoanFetchPeriod)) + config.AutoLoanFetchShift
            + config.AutoLoanFetchPeriod
    ELSE (tin.now - (tin.now % config.AutoLoanFetchPeriod)) + config.AutoLoanFetchShift

\* C14: a credit whose expiration (createTime + period x 24h) is at or before the next auto-loan tick is classified toExpire, and every other credit is classified normal.
C14_ToExpireAtOrBeforeNextTick ==
    tpc = "prepared" =>
        \A i \in 1..Len(tin.credits) :
            /\ (tin.credits[i].Id \in toExpireIds)
                    <=> (tin.credits[i].CreateTime + tin.credits[i].Period * Day <= nextTick)
            /\ (tin.credits[i].Id \in normalIds) <=> (tin.credits[i].Id \notin toExpireIds)

\* C16: if minRateDifference is 0 and every credit's rate is less than or equal to the best ask rates of the book, the produced task closes no loan.
C16_NoCloseAtOrBelowBestAsk ==
    (/\ tpc = "prepared"
     /\ config.MinRateDifference = 0
     /\ tin.ob # <<>>
     /\ \A i \in 1..Len(tin.credits) : tin.credits[i].Rate <= tin.ob[1].Rate)
        => bt.task.LoanIdsToClose = <<>>

\* the task of the same input when no more than the credits is to be borrowed
creditsOnly == buildTask(tin.ob, tin.credits, 0, tin.now, config)

\* C17: whenever the total borrow passed to the decision exceeds the sum of the amounts of all held credits, the difference is filled from the ask book as far as the book reaches and added to the task's totalBorrow.
C17_RestOfTotalBorrowFilled ==
    (tpc = "prepared" /\ tin.totalBorrow > sumAmounts(tin.credits)) =>
        bt.task.TotalBorrow =
            creditsOnly.task.TotalBorrow + (tin.totalBorrow - sumAmounts(tin.credits))
                - obFill(tin.ob, creditsOnly.st, tin.totalBorrow - sumAmounts(tin.credits)).left

\* the rates of the entries of the book that the walk took, whole or in part
consumedRates ==
    { tin.ob[i].Rate : i \in 1..(bt.st.obi + (IF bt.st.obFilled > 0 THEN 1 ELSE 0)) }

\* C18: the rate of a produced task is the highest ask rate consumed from the book while the task was built; on the S2 fixture the task is {totalBorrow 173810000000, loanIdsToClose [102,100], rate 4125000000}.
C18_RateIsHighestConsumed ==
    tpc = "prepared" =>
        /\ bt.task.TotalBorrow > 0 => \A r \in consumedRates : r <= bt.task.Rate
        /\ bt.task.TotalBorrow > 0 => bt.task.Rate \in consumedRates
        /\ tin = S2Input => bt.task = S2Task

----------------------------------------------------------------------------
(* The execution *)

\* C12: a borrow task is executed in this order: the funding bid is submitted; after 2 s the active orders are queried; an order that is still active is cancelled after a further 10 s; only then the displaced loans are closed, so no closeFunding precedes the bid or the cancellation of a residual order.
C12_BidQueryCancelThenClose ==
    \A i \in 1..Len(xlog) :
        /\ xlog[i].op = "SubmitBidOrder" => i = 1
        /\ xlog[i].op = "GetActiveOrders" =>
                i = 2 /\ xlog[1].op = "SubmitBidOrder" /\ xlog[i].at = xlog[1].at + 2
        /\ xlog[i].op = "CancelOrder" =>
                /\ i = 3
                /\ xlog[2].op = "GetActiveOrders" /\ xlog[2].found
                /\ xlog[i].at = xlog[2].at + 10
        /\ xlog[i].op = "CloseFunding" =>
                /\ i >= 3
                /\ xlog[1].op = "SubmitBidOrder" /\ xlog[2].op = "GetActiveOrders"
                /\ xlog[2].found => (i >= 4 /\ xlog[3].op = "CancelOrder")
                /\ xlog[i].id = bt.task.LoanIdsToClose[i - (IF xlog[2].found THEN 3 ELSE 2)]

C12_Witness ==
    /\ tpc = "done"
    /\ Len(xlog) = 5
    /\ xlog[3].op = "CancelOrder"
    /\ xlog[4].op = "CloseFunding"
    /\ xlog[5].op = "CloseFunding"

\* the value the claim counts for a position: a long position on a market quoted in the
\* configured currency, a short position on a market whose base is the configured currency
countedValue(pos) ==
    IF pos.Long /\ \E m \in Markets : m.Name = pos.Market /\ m.QuoteCurrency = config.Currency
    THEN Mul(pos.Amount, pos.BasePrice, 10, TRUE)
    ELSE IF ~pos.Long /\ \E m \in Markets : m.Name = pos.Market /\ m.BaseCurrency = config.Currency
    THEN pos.Amount
    ELSE 0

RECURSIVE countedTotal(_)
countedTotal(poss) == IF poss = <<>> THEN 0 ELSE countedValue(Head(poss)) + countedTotal(Tail(poss))

\* C15: with the market sets built by PrepareMarkets, the total borrow counts exactly the long positions on markets quoted in the configured currency (amount x basePrice) and the short positions on markets whose base is the configured currency (amount), and no other position.
C15_TotalBorrowCountsOwnMarkets ==
    tin # NoInput =>
        tin.totalBorrow = clipBorrow(countedTotal(tin.poss), totalBalOf(tin.bals, config))

\* C19: when the ask side is empty or there are no credits, the decision returns the empty task and the execution does nothing: no bid is submitted and no loan is closed, for every configured minOrderAmount.
C19_EmptyTaskIsNoOp ==
    (tin # NoInput /\ (tin.ob = <<>> \/ tin.credits = <<>>)) =>
        /\ bt.task = EmptyTask
        /\ xlog = <<>>

----------------------------------------------------------------------------
(* The reorder buffer: stale, far and colliding arrivals *)

\* a step is a push of lastPush' onto the handler nh, whose next expected number is set
IsPush == pushCount' = pushCount + 1 /\ nh.haveSeqNo

\* the seqNos processed by the step
newlyProcessed == SubSeq(processed', Len(processed) + 1, Len(processed'))

\* the seqNos buffered in a handler up to seqNo n
bufferedUpTo(h, n) ==
    { h.seqNos[i].seqNo : i \in { j \in 1..seqNoElemsNum : h.seqNos[j] # Nil /\ h.seqNos[j].seqNo <= n } }

\* C22: a pushed event with seqNo below the next-expected number E is dropped without being processed and without changing the buffer, and the push reports no gap for it.
C22_StaleDroppedWithoutGap ==
    [][ (IsPush /\ lastPush' < nh.startSeqNo) =>
            (nh' = nh /\ processed' = processed /\ lastRet' = "ok") ]_vars

\* C23: an event with seqNo >= E + 30 makes the occupied slots in [E, seqNo - 29] be processed in ascending order, E advance to seqNo - 29, the event be handled against the advanced window, and the push report a gap.
C23_FarPushForcesWindow ==
    [][ (IsPush /\ lastPush' >= nh.startSeqNo + seqNoElemsNum) =>
            /\ lastRet' = "gap"
            /\ StrictlyIncreasing(newlyProcessed)
            /\ bufferedUpTo(nh, lastPush' - seqNoElemsNum + 1) \subseteq Range(newlyProcessed)
            /\ nh'.startSeqNo >= lastPush' - seqNoElemsNum + 1
            /\ \/ lastPush' \in Range(newlyProcessed) /\ nh'.startSeqNo = lastPush' + 1
               \/ /\ lastPush' \notin Range(newlyProcessed)
                  /\ nh'.startSeqNo <= lastPush'
                  /\ nh'.seqNos[lastPush' - nh'.startSeqNo + 1].seqNo = lastPush' ]_vars

\* a far push found buffered events to force out
C23_Witness ==
    /\ lastRet = "gap"
    /\ lastPush >= 2 * seqNoElemsNum
    /\ \E i \in 1..(Len(processed) - 1) : processed[i + 1] > processed[i] + 1
    /\ nh.startSeqNo = lastPush - seqNoElemsNum + 1
    /\ nh.seqNos[seqNoElemsNum].seqNo = lastPush

\* C24: pushing an event inside the buffered window (E < seqNo < E + 30) whose slot is occupied is fatal: the push aborts, the buffered event is not overwritten and neither copy is processed by that push.
C24_CollisionAborts ==
    [][ (/\ IsPush
         /\ nh.startSeqNo < lastPush'
         /\ lastPush' < nh.startSeqNo + seqNoElemsNum
         /\ nh.seqNos[lastPush' - nh.startSeqNo + 1] # Nil) =>
            (lastRet' = "panic" /\ nh' = nh /\ processed' = processed) ]_vars

C24_Witness ==
    /\ lastRet = "panic"
    /\ nh.startSeqNo < lastPush
    /\ nh.seqNos[lastPush - nh.startSeqNo + 1].seqNo = lastPush

----------------------------------------------------------------------------
(* The period loop *)

\* C21: for each period the loop anchors T_start = truncate(now, P) + S, advances it by P when that instant is already in the past, and only then sleeps until T_start; a window is never run for a T_start that was already past when it was chosen.
C21_WindowNeverForPastStart ==
    \A i \in 1..Len(ran) : ran[i].start >= ran[i].chosenAt

----------------------------------------------------------------------------
(* The read loop *)

\* handleMessages takes from errCh the error of a protocol violation
TakesViolation ==
    /\ rpc = "select"
    /\ errCh # <<>>
    /\ Head(errCh) \in {"wrong", "fatal"}
    /\ errCh' = Tail(errCh)

\* C25: a protocol violation detected while handling a realtime message (wrong JSON shape, sequence collision inside the buffer) aborts the handling of that message and makes the realtime plane treat the connection as failed and reconnect.
C25_ViolationReconnects ==
    [][ TakesViolation => (rpc' = "dial" /\ ~rdAlive') ]_vars

\* C28: at any time at most one reader is active on a websocket connection: the read loop never has two outstanding reads on the same connection.
C28_OneReaderPerConnection ==
    \A c \in 0..MaxDials : rdReads[c] <= 1

Waits == {"wait10", "wait60"}

----------------------------------------------------------------------------
(* The maintainer: a snapshot that meets pending diffs *)

\* the pending diffs newer than a snapshot with sequence number s
newerThan(s) == { i \in 1..Len(pendings) : pendings[i].seqNo > s }

\* C26: when an initial snapshot with sequence number s is received, every pending diff with seqNo <= s is discarded without being applied, and the pending diffs with seqNo > s are applied in ascending seqNo order, each intermediate book being published to the subscriber's handler.
C26_SnapshotFlushesPendings ==
    [][ \A seqNo \in 0..MaxSeq, ob \in SnapshotBooks, b \in PoolChoices :
            PushInitial(seqNo, ob, b) =>
                /\ pendings' = <<>>
                /\ Len(lastOut') = Cardinality(newerThan(seqNo))
                /\ initialSeqNo' >= seqNo
                /\ \A i \in newerThan(seqNo) : initialSeqNo' >= pendings[i].seqNo ]_vars

----------------------------------------------------------------------------
(* applyDiff and its destination *)

\* a destination book that nothing else points into
freshArr(side) == <<-1, 0, side>>

freshBook == [Bid |-> Slice(freshArr("Bid"), 0), Ask |-> Slice(freshArr("Ask"), 0)]

withFresh(hp) ==
    [ a \in DOMAIN hp \cup {freshArr("Bid"), freshArr("Ask")} |-> IF a \in DOMAIN hp THEN hp[a] ELSE <<>> ]

\* the value of the book that stmp.applyDiff(sdest, diff) leaves in sdest
applied(hp, stmp, sdest, diff) == Deref(applyDiff(hp, stmp, sdest, diff).heap, applyDiff(hp, stmp, sdest, diff).dest)

\* C27: applyDiff writes into the destination a book whose side opposite to the diff's side is an element-for-element copy of the source book's opposite side, so that the resulting book depends only on the source book and the diff and not on what the destination held before the call: rtob.initial.applyDiff(&toHandle[0], diff) gives, for every pooled buffer, the book it gives with a fresh destination.
C27_ResultDependsOnSourceAndDiff ==
    haveInitial =>
        \A b \in 1..Len(toHandlePool), diff \in DiffInputs :
            /\ applied(heap, initial, toHandlePool[b][1], diff)[OtherSide(diff.Side)]
                   = Deref(heap, initial)[OtherSide(diff.Side)]
            /\ applied(heap, initial, toHandlePool[b][1], diff)
                   = applied(withFresh(heap), initial, freshBook, diff)

----------------------------------------------------------------------------
(* The cycle under recover *)

\* C31: a failure (panic) raised during a cycle's actions - closing unused fundings, the funding summary, or the borrow task - is caught and logged: the process keeps running, the task mutex is released, and the control loop still handles the next period.
C31_PanicInCycleIsCaught ==
    [][ /\ ~procDown'
        /\ taskMutex' # 0 => tasks'[taskMutex'] = "run"
        /\ cyGhost'.logged >= Cardinality(cyGhost'.panicked)
        /\ (cyGhost'.logged = cyGhost.logged + 1 /\ tasks' = tasks /\ cpc = "close") => cpc' = "summary"
        /\ (cyGhost'.logged = cyGhost.logged + 1 /\ tasks' = tasks /\ cpc = "summary") => cpc' = "select"
        /\ (cyGhost'.logged = cyGhost.logged + 1 /\ tasks' # tasks) => (taskMutex' = 0 /\ cpc' = cpc) ]_vars

\* every action has panicked, and a later period is being handled with the mutex free
C31_Witness ==
    /\ cyGhost.panicked = CycleActions
    /\ cyGhost.sincePanic >= 1
    /\ cpc = "select"
    /\ taskMutex = 0
    /\ \E i \in 1..MaxTasks : tasks[i] = "done"

----------------------------------------------------------------------------
(* The pauses of closeFundings *)

\* the closeFunding requests issued while the pauses taken so far add up to t
closuresAt(t) == { i \in 1..Len(xlog) : xlog[i].op = "CloseFunding" /\ xlog[i].at = t }

\* C32: closeFundings pauses for one minute after every 80 closures, so that no more than 80 closeFunding requests are ever issued without an intervening one-minute pause.
C32_AtMost80ClosuresBetweenPauses ==
    \A i \in 1..Len(xlog) : Cardinality(closuresAt(xlog[i].at)) <= closeBatch

----------------------------------------------------------------------------
(* The updater of the data fetcher *)

\* C33: on every update tick of the data fetcher, each data axis (USD price, order book, last trade) whose last realtime update is older than 5 minutes, or for which no value has been stored, is fetched via REST, stored, and passed to the user handler, independently of how recently the other axes were updated.
C33_StaleAxisFetchedOnTick ==
    dfGhost.updates > 0 => dfGhost.stale \subseteq dfFetched

----------------------------------------------------------------------------
(* The diffs a fold takes *)

\* the last n elements of a sequence
lastOf(q, n) == SubSeq(q, Len(q) - n + 1, Len(q))

\* the seqNos of q are s+1, s+2, ...
consecutiveFrom(s, q) == \A i \in 1..Len(q) : q[i].seqNo = s + i

\* C34: every order book published by the maintainer equals the most recently received snapshot with exactly the diffs of the consecutive seqNos that follow the snapshot's seqNo applied in order: diffs are never folded across a missing seqNo, also when processed diffs were retained after a reported gap or were force-processed with holes.
C34_FoldsConsecutiveSeqNos ==
    [][ /\ \A seqNo \in 0..MaxSeq, ob \in SnapshotBooks, b \in PoolChoices :
              (PushInitial(seqNo, ob, b) /\ lastOut' # <<>>)
                  => consecutiveFrom(seqNo, lastOf(pendings, Len(lastOut')))
        /\ \A seqNo \in DiffSeqNos, diff \in DiffInputs, b \in PoolChoices :
              (PushDiff(seqNo, diff, b) /\ lastOut' # <<>>)
                  => consecutiveFrom(initialSeqNo,
                                     lastOf(pendings \o push(nh, [seqNo |-> seqNo, diff |-> diff]).out,
                                            Len(lastOut'))) ]_vars

----------------------------------------------------------------------------
(* Closing after the bid *)

\* C35: loans listed in loanIdsToClose are closed only when replacement funding was obtained: no closeFunding call is made for a task whose bid submission failed or whose bid was cancelled without any part of it having been filled.
C35_CloseOnlyAfterFunding ==
    \A i \in 1..Len(xlog) :
        xlog[i].op = "CloseFunding" =>
            /\ Len(xlog) >= 2 /\ xlog[2].op = "GetActiveOrders"
            /\ \A j \in 1..(i - 1) : xlog[j].op = "CancelOrder" => xlog[j].filled

----------------------------------------------------------------------------
(* The first messages of a channel *)

\* C36: for an order-book channel, the messages queued before the channel binding are handled before any later message of the same channel and in arrival order, so the initial snapshot is always applied before a diff that arrived after it.
C36_FirstMessagesHandledFirst ==
    [][ \A m \in wsGhost'.handled \ wsGhost.handled :
            \A i \in 1..Len(replay') :
                ~(replay'[i].chanId = m.chanId /\ replay'[i].n < m.n) ]_vars

----------------------------------------------------------------------------
(* The delivery of replies and errors *)

\* C37: the message dispatcher never blocks indefinitely while delivering a command reply or an error: event objects that no command is waiting for, or more than two undelivered replies or errors, do not stall the read loop or a later Stop.
C37_DeliveryNeverStalls ==
    ~(dpc = "sending" /\ call.kind = "none")

----------------------------------------------------------------------------
(* A failed command during the resubscription *)

\* C38: a command that fails (error event from the server, or a disconnect or stop while awaiting the reply) during the automatic resubscription after a reconnect does not terminate the process.
C38_FailedResubscriptionSurvives ==
    ~(crashed /\ call.kind = "resub")

----------------------------------------------------------------------------
(* The output books of a fold *)

\* C39: however many processed diffs accumulate in the pending list while no snapshot is held, folding them into a snapshot never accesses an output book beyond the 30 pre-allocated ones (no out-of-range index).
C39_FoldStaysWithinBooks ==
    [][ /\ \A seqNo \in 0..MaxSeq, ob \in SnapshotBooks, b \in PoolChoices :
              PushInitial(seqNo, ob, b) => ~bookPanic'
        /\ \A seqNo \in 1..(seqNoElemsNum + MaxBookOps + 1), diff \in DiffInputs, b \in PoolChoices :
              (PushDiff(seqNo, diff, b) /\ ~push(nh, [seqNo |-> seqNo, diff |-> diff]).panic)
                  => ~bookPanic' ]_vars

----------------------------------------------------------------------------
(* The book cached by the data fetcher *)

\* book a is the state b of the book or a later one
notOlder(a, b) == a.op > b.op \/ (a.op = b.op /\ a.idx >= b.idx)

\* C40: the order book cached by the data fetcher and passed on to the engine is never replaced by an older state of the book than one already delivered: after a batch of folded diffs is published, the last book stored and the last book seen by the engine's order-book check is the one with the highest seqNo.
C40_CachedBookNeverOlder ==
    [][ notOlder(dfOrderBook', dfOrderBook) ]_vars

====
